---- MODULE Spec2Model ----
(***************************************************************************)
(* A model of the injector runtime: InjectorBuilder (build_the_world,      *)
(* build_from_metadata, topological_sort), Injector (get, get_trait_object,*)
(* get_all_trait_objects, build_and_store) and UnsafeStore (push, get,     *)
(* Drop).                                                                  *)
(*                                                                         *)
(* A TypeId is a string.  An InjectMeta / BindingMeta is a record with the *)
(* fields of the struct; its `create` function pointer is a record naming  *)
(* the registry entry it was generated for.  A stored value (Box<dyn Any>) *)
(* is a record [type_id, create, refs]: its runtime type, the factory that *)
(* made it and the set of arena positions it borrows from.  `calls`,       *)
(* `pushed` and `dropped` are what an observer of the factories and of the *)
(* destructors sees (as the DropObserver of unsafe_storage.rs does).       *)
(*                                                                         *)
(* Spec is a program that injects its values, builds the world, looks      *)
(* things up in the sealed injector and drops it; it follows a reference   *)
(* by the position of the item it points to.  StoreSpec is an UnsafeStore  *)
(* on its own and follows a reference by its address in memory.            *)
(***************************************************************************)
EXTENDS Integers, Sequences, FiniteSets, TLC

VARIABLES
    INJECTION_REGISTRY, \* derive_api.rs: the distributed slice of InjectMeta
    BINDING_REGISTRY,   \* derive_api.rs: the distributed slice of BindingMeta
    pc,                 \* position of the program
    graph,              \* topological_sort: the MultiMap still to visit
    dfs_queue,          \* topological_sort: the depth-first stack
    creation_order,     \* topological_sort: the output list
    cursor,             \* build_from_metadata: next element of `sorted`
    items,              \* UnsafeStore.items
    index,              \* Injector.index
    multi_bindings_index, \* Injector.multi_bindings_index
    panic,              \* the panic that ended the build, if any
    calls,              \* history: the factories invoked, in order
    pushed,             \* history: the items pushed into the store, in order
    dropped,            \* history: the items released by Drop, in order
    to_inject,          \* the values main still has to hand to inject_value
    lookup,             \* the last lookup made on the sealed injector
    memory,             \* the allocations behind an UnsafeStore
    held,               \* the references UnsafeStore::get has handed out
    readers,            \* the lookup each reader of the sealed injector is in
    slots,              \* history: the slots push returned to the owner of a store on its own
    visit_queue,        \* prebuild: the queue of visits
    done,               \* prebuild: the types whose AfterChildren visit is over
    in_progress,        \* prebuild: the types between their two visits
    create_order,       \* prebuild: the output of the traversal
    mapping,            \* runtime.rs Injector.mapping
    prebuilds,          \* history: the prebuild calls made on the injector
    visited             \* history: the types topological_sort took out of the graph, in order

vars == <<INJECTION_REGISTRY, BINDING_REGISTRY, pc, graph, dfs_queue,
          creation_order, cursor, items, index, multi_bindings_index,
          panic, calls, pushed, dropped, to_inject, lookup, memory, held,
          readers,
          slots,
          visit_queue, done, in_progress, create_order, mapping, prebuilds,
          visited>>

registry == <<INJECTION_REGISTRY, BINDING_REGISTRY>>
sortVars == <<graph, dfs_queue, creation_order>>
injectorVars == <<items, index, multi_bindings_index>>
history == <<calls, pushed, dropped>>
storeVars == <<memory, held>>
legacyVars == <<visit_queue, done, in_progress, create_order, mapping, prebuilds>>

(***************************************************************************)
(* Bounds of the model.                                                    *)
(***************************************************************************)
\* longest dependency list of a registered type
MaxDeps == 2
\* most bindings registered for the capability
MaxBindings == 3
\* most values handed to inject_value
MaxSeeds == 1
\* most items pushed into a store that is followed by address
MaxItems == 3
\* most references to its items that are held at a time
MaxHeld == 2

\* concrete injectable types
Types == {"A", "B", "C"}
\* trait objects (capabilities): the TypeId of &'static dyn T
Traits == {"T"}
TypeIds == Types \cup Traits
\* a runtime type no descriptor declares
WrongType == "Wrong"

(***************************************************************************)
(* Sequences.                                                              *)
(***************************************************************************)
Range(s) == {s[i] : i \in DOMAIN s}

SeqsUpTo(S, n) == UNION {[1..k -> S] : k \in 0..n}

\* flat_map / chain: the sequences of ss one after the other
RECURSIVE Concat(_)
Concat(ss) == IF ss = <<>> THEN <<>> ELSE Head(ss) \o Concat(Tail(ss))

\* the orders in which a hash map may iterate over the keys S
Perms(S) == {p \in [1..Cardinality(S) -> S] : Range(p) = S}

(***************************************************************************)
(* multimap::MultiMap<K, V>: a hash map from a key to the vector of the    *)
(* values inserted under it, in insertion order.                           *)
(***************************************************************************)
EmptyMap == [k \in {} |-> <<>>]

MultiMapInsert(m, k, v) ==
    IF k \in DOMAIN m
    THEN [m EXCEPT ![k] = Append(@, v)]
    ELSE [x \in DOMAIN m \cup {k} |-> IF x = k THEN <<v>> ELSE m[x]]

MapRemove(m, k) == [x \in DOMAIN m \ {k} |-> m[x]]

MapInsert(m, k, v) == [x \in DOMAIN m \cup {k} |-> IF x = k THEN v ELSE m[x]]

\* collect::<MultiMap<_, _>>() of a sequence of <<key, value>> pairs
RECURSIVE CollectInto(_, _)
CollectInto(m, pairs) ==
    IF pairs = <<>> THEN m
    ELSE CollectInto(MultiMapInsert(m, Head(pairs)[1], Head(pairs)[2]), Tail(pairs))

Collect(pairs) == CollectInto(EmptyMap, pairs)

(***************************************************************************)
(* The registries (derive_api.rs).  A factory generated by the derive      *)
(* macros fetches each dependency from the injector, in the order of the   *)
(* dependency list: a concrete type with get, a trait object with          *)
(* get_trait_object or get_all_trait_objects (utils.rs, quote_get_call).   *)
(* `create.lookups` records which call is made for each dependency.        *)
(***************************************************************************)
NoPanic == [kind |-> "none", name |-> "none"]

\* no lookup has been made
NoLookup == [call |-> "none", id |-> "none", panic |-> NoPanic, at |-> <<>>, refs |-> {}]

\* nothing is allocated
NoMemory == [cells |-> EmptyMap, ptr |-> 0, cap |-> 0]

\* what a field or constructor argument may ask for: <<TypeId, lookup call>>
DepChoices(calls_on_traits) ==
    {<<t, "get">> : t \in Types} \cup {<<t, k>> : t \in Traits, k \in calls_on_traits}

\* the dependency lists of type t: no type twice, not t itself
DepLists(t, n, calls_on_traits) ==
    {d \in SeqsUpTo(DepChoices(calls_on_traits), n) :
        /\ \A i \in DOMAIN d : d[i][1] # t
        /\ \A i, j \in DOMAIN d : i # j => d[i][1] # d[j][1]}

\* utils.rs quote_inject_meta: the InjectMeta of entry n of INJECTION_REGISTRY
InjectMetaOf(t, d, n) ==
    [this |-> t,
     name |-> t,
     dependencies |-> [i \in DOMAIN d |-> d[i][1]],
     create |-> [registry |-> "INJECTION_REGISTRY", n |-> n,
                 lookups |-> [i \in DOMAIN d |-> d[i][2]]],
     is_multi_binding |-> FALSE]

\* attributes_for_binding.rs get_binding_meta: entry n of BINDING_REGISTRY
BindingMetaOf(trait, impl, multi, n) ==
    [trait_object |-> trait,
     name |-> trait,
     impl_type |-> impl,
     is_multi_binding |-> multi,
     create |-> [registry |-> "BINDING_REGISTRY", n |-> n, lookups |-> <<"get">>]]

\* the object registries in which each type is registered at most once, with
\* a dependency list of at most n entries.  The entries come in the order A,
\* B, C: build_from_metadata keys them by type in a hash map, which forgets
\* the order of the entries of different types.
ObjectRegistries(n, calls_on_traits) ==
    LET Entries(t) == {<<>>} \cup {<<<<t, d>>>> : d \in DepLists(t, n, calls_on_traits)}
        Raw == {a \o b \o c : a \in Entries("A"), b \in Entries("B"), c \in Entries("C")}
    IN  {[i \in DOMAIN r |-> InjectMetaOf(r[i][1], r[i][2], i)] : r \in Raw}

\* the binding registries of at most n bindings of trait: an impl block binds
\* a trait to a type once
BindingRegistries(trait, impls, n) ==
    LET Raw == {b \in SeqsUpTo(impls \X BOOLEAN, n) :
                    \A i, j \in DOMAIN b : i # j => b[i][1] # b[j][1]}
    IN  {[i \in DOMAIN b |-> BindingMetaOf(trait, b[i][1], b[i][2], i)] : b \in Raw}

\* Registries with rich dependency lists and at most one binding.
FamilyObjects ==
    ObjectRegistries(MaxDeps, {"get_trait_object"}) \X BindingRegistries("T", {"A"}, 1)

\* Registries with several bindings, in every registration order.
FamilyBindings ==
    ObjectRegistries(0, {}) \X BindingRegistries("T", Types, MaxBindings)

\* Registries in which one type depends on a capability with up to two
\* providers.
FamilyDependents ==
    {r \in ObjectRegistries(MaxDeps, {"get_trait_object", "get_all_trait_objects"}) :
        /\ Len(r) = Cardinality(Types)
        /\ \A i \in DOMAIN r : r[i].this # "C" => r[i].dependencies = <<>>}
        \X BindingRegistries("T", {"A", "B"}, 2)

\* Registries in which two descriptors are registered for type A, by hand as
\* the registry is public; B is a leaf and C may depend on A.
FamilyDuplicates ==
    LET Twice == {<<<<"A", d1>>, <<"A", d2>>>> : d1, d2 \in DepLists("A", 1, {})}
        Leaf == {<<>>, <<<<"B", <<>>>>>>}
        Dependent == {<<>>} \cup {<<<<"C", d>>>> : d \in DepLists("C", 1, {})}
        Raw == {a \o b \o c : a \in Twice, b \in Leaf, c \in Dependent}
    IN  {[i \in DOMAIN r |-> InjectMetaOf(r[i][1], r[i][2], i)] : r \in Raw} \X {<<>>}

\* Registries in which C asks for all the providers of the capability and
\* the providers A and B may depend on a type themselves, on C included.
FamilyProviders ==
    LET Provider(t) == {<<<<t, d>>>> : d \in DepLists(t, 1, {})}
        Dependent == {<<<<"C", d>>>> : d \in {l \in DepLists("C", MaxDeps, {"get_all_trait_objects"}) :
                                                \E i \in DOMAIN l : l[i][1] \in Traits}}
        Raw == {a \o b \o c : a \in Provider("A"), b \in Provider("B"), c \in Dependent}
    IN  {[i \in DOMAIN r |-> InjectMetaOf(r[i][1], r[i][2], i)] : r \in Raw}
            \X BindingRegistries("T", {"A", "B"}, 2)

Registries ==
    FamilyObjects \cup FamilyBindings \cup FamilyDependents \cup FamilyDuplicates
        \cup FamilyProviders

\* the value main hands to its n-th call of inject_value, of type t
InjectedValue(t, n) ==
    [type_id |-> t,
     create |-> [registry |-> "inject_value", n |-> n, lookups |-> <<>>],
     refs |-> {}]

\* the lists of at most n values main may hand to inject_value, one value
\* of a type at most
Seeds(n) ==
    {[i \in DOMAIN s |-> InjectedValue(s[i], i)] :
        s \in {q \in SeqsUpTo(Types, n) : \A i, j \in DOMAIN q : i # j => q[i] # q[j]}}

\* Programs that pre-seed the injector, as examples/manual_injection.rs does:
\* inject_value stands in for the constructor of a type, so a type that is
\* given a value has no entry in INJECTION_REGISTRY.  The types depend on
\* each other only.
FamilySeeded ==
    {p \in ObjectRegistries(MaxDeps, {}) \X {<<>>} \X (Seeds(MaxSeeds) \ {<<>>}) :
        \A i \in DOMAIN p[1], j \in DOMAIN p[3] : p[1][i].this # p[3][j].type_id}

\* a program: its two registries and the values its main injects
Programs == {<<r[1], r[2], <<>>>> : r \in Registries} \cup FamilySeeded

(***************************************************************************)
(* UnsafeStore (unsafe_storage.rs).  Positions count from 0.               *)
(***************************************************************************)
\* an Option is a sequence of at most one element
None == <<>>
Some(x) == <<x>>

UnsafeStore_new == <<>>

\* (variant) the length after the push is returned
UnsafeStore_push_output_after(store) == Len(store) + 1

\* (variant) items.insert(0, item)
UnsafeStore_push_front(store, item) == <<item>> \o store

\* (variant) items.remove(0): the store is drained from the front
UnsafeStore_drop_front(store) ==
    [item |-> Head(store), items |-> Tail(store)]

\* (variant) items.swap_remove(0): the last item takes the place of the first
UnsafeStore_drop_swap(store) ==
    [item |-> Head(store),
     items |-> IF Len(store) = 1 THEN <<>>
               ELSE <<store[Len(store)]>> \o SubSeq(store, 2, Len(store) - 1)]

UnsafeStore_get(store, item) ==
    IF item \in 0..(Len(store) - 1) THEN Some(store[item + 1]) ELSE None

\* (variant) the position of the last item before the push is returned
UnsafeStore_push_output_last(store) == IF store = <<>> THEN 0 ELSE Len(store) - 1

\* the position push returns
UnsafeStore_push_output(store) == Len(store)

\* the store after push
UnsafeStore_push(store, item) == Append(store, item)

\* one iteration of Drop: self.items.pop() takes the last item out of the
\* store, drop(item) releases it
UnsafeStore_drop_step(store) ==
    [item |-> store[Len(store)], items |-> SubSeq(store, 1, Len(store) - 1)]

(***************************************************************************)
(* The memory behind an UnsafeStore: items is a Vec<Box<dyn Any>>, that    *)
(* is, one buffer of Box handles and one allocation per Box.  `cells` maps *)
(* each live allocation to what it holds, `ptr` and `cap` are the buffer   *)
(* and the capacity of the Vec (ptr 0: nothing allocated yet).  A pointer  *)
(* is [alloc, offset]: an allocation and a place in it.                    *)
(***************************************************************************)
\* a Box and the buffer of the old Vec and of the new one while it grows
Addresses == 1..(MaxItems + 2)

Free(mem) == Addresses \ DOMAIN mem.cells

\* the handles in the buffer of the Vec
Handles(mem) == IF mem.ptr = 0 THEN <<>> ELSE mem.cells[mem.ptr].handles

\* Box::new(item) at the address the allocator gives
Box_new(mem, a, item) ==
    [mem EXCEPT !.cells = MapInsert(@, a, [kind |-> "box", value |-> item, handles |-> <<>>])]

\* Vec::push of the Box at address a.  A full Vec grows first: its handles
\* move to a buffer of capacity new_cap at address b (b = ptr: the buffer is
\* extended in place) and the old buffer is freed.
Vec_push(mem, a, b, new_cap) ==
    IF Len(Handles(mem)) < mem.cap
    THEN [mem EXCEPT !.cells[mem.ptr].handles = Append(@, a)]
    ELSE [cells |-> MapInsert(MapRemove(mem.cells, mem.ptr), b,
                       [kind |-> "buffer", value |-> "none",
                        handles |-> Append(Handles(mem), a)]),
          ptr |-> b,
          cap |-> new_cap]

\* items.get(item): a pointer to the handle in the buffer
Vec_get(mem, item) ==
    IF item \in 0..(Len(Handles(mem)) - 1)
    THEN Some([alloc |-> mem.ptr, offset |-> item])
    ELSE None

\* (variant) the reference points to the handle in the buffer of the Vec
UnsafeStore_get_ref_handle(mem, item) == Vec_get(mem, item)

\* UnsafeStore::get, `&***x`: a pointer to the memory of the Box itself
UnsafeStore_get_ref(mem, item) ==
    IF Vec_get(mem, item) = None THEN None
    ELSE Some([alloc |-> Handles(mem)[item + 1], offset |-> 0])

\* what a pointer denotes: the value of a Box, or of the Box whose handle it
\* points to; nothing when its allocation is gone
Deref(mem, p) ==
    IF p.alloc \notin DOMAIN mem.cells THEN None
    ELSE LET cell == mem.cells[p.alloc]
         IN  IF cell.kind = "box"
             THEN Some(cell.value)
             ELSE IF p.offset + 1 \in DOMAIN cell.handles
             THEN Some(mem.cells[cell.handles[p.offset + 1]].value)
             ELSE None

\* the item of the n-th push of the tests: a value that borrows nothing.  The
\* store never looks into a Box<dyn Any>: the items differ by their number.
BoxedValue(n) ==
    [type_id |-> "A",
     create |-> [registry |-> "tests", n |-> n, lookups |-> <<>>],
     refs |-> {}]

(***************************************************************************)
(* Injector (injector.rs).  An injector value is a record of its three     *)
(* fields.  A lookup returns [panic, at, refs]: the panic it ends in (or   *)
(* NoPanic), the positions it read and the positions the references it     *)
(* hands out point to.                                                     *)
(***************************************************************************)
Injector_builder ==
    [items |-> UnsafeStore_new, index |-> EmptyMap, multi_bindings_index |-> EmptyMap]

\* the two unwraps after the index lookup: the position is in the store and
\* the item there downcasts to the type asked for
Unwraps(inj, id, position) ==
    LET item == UnsafeStore_get(inj.items, position)
    IN  IF item = None \/ item[1].type_id # id
        THEN [kind |-> "UnwrapNone", name |-> id]
        ELSE NoPanic

\* (variant) the position found in the index is not used: the reference is
\* to the last item of the store
Injector_get_last(inj, id) ==
    IF id \notin DOMAIN inj.index
    THEN [panic |-> [kind |-> "LookupMiss", name |-> id], at |-> <<>>, refs |-> {}]
    ELSE [panic |-> NoPanic, at |-> <<Len(inj.items) - 1>>, refs |-> {Len(inj.items) - 1}]

\* (variant) a type without an entry in the index is looked for in the
\* multi-bindings index
Injector_get_any_index(inj, id) ==
    IF id \in DOMAIN inj.index
    THEN [panic |-> Unwraps(inj, id, inj.index[id]),
          at |-> IF Unwraps(inj, id, inj.index[id]) = NoPanic THEN <<inj.index[id]>> ELSE <<>>,
          refs |-> IF Unwraps(inj, id, inj.index[id]) = NoPanic THEN {inj.index[id]} ELSE {}]
    ELSE IF id \in DOMAIN inj.multi_bindings_index
    THEN [panic |-> NoPanic, at |-> <<inj.multi_bindings_index[id][1]>>,
          refs |-> {inj.multi_bindings_index[id][1]}]
    ELSE [panic |-> [kind |-> "LookupMiss", name |-> id], at |-> <<>>, refs |-> {}]

\* Injector::get: a reference to the item stored at index[id]
Injector_get(inj, id) ==
    IF id \notin DOMAIN inj.index
    THEN [panic |-> [kind |-> "LookupMiss", name |-> id], at |-> <<>>, refs |-> {}]
    ELSE LET position == inj.index[id]
         IN  IF Unwraps(inj, id, position) # NoPanic
             THEN [panic |-> Unwraps(inj, id, position), at |-> <<>>, refs |-> {}]
             ELSE [panic |-> NoPanic, at |-> <<position>>, refs |-> {position}]

\* Injector::get_trait_object: the &dyn T stored at index[id], which points to
\* the instance the binding wrapped
Injector_get_trait_object(inj, id) ==
    IF id \notin DOMAIN inj.index
    THEN [panic |-> [kind |-> "LookupMiss", name |-> id], at |-> <<>>, refs |-> {}]
    ELSE LET position == inj.index[id]
         IN  IF Unwraps(inj, id, position) # NoPanic
             THEN [panic |-> Unwraps(inj, id, position), at |-> <<>>, refs |-> {}]
             ELSE [panic |-> NoPanic, at |-> <<position>>,
                   refs |-> UnsafeStore_get(inj.items, position)[1].refs]

\* Injector::get_all_trait_objects: the &dyn T of every position listed
Injector_get_all_trait_objects(inj, id) ==
    IF id \notin DOMAIN inj.multi_bindings_index
    THEN [panic |-> [kind |-> "LookupMiss", name |-> id], at |-> <<>>, refs |-> {}]
    ELSE LET positions == inj.multi_bindings_index[id]
             bad == {i \in DOMAIN positions : Unwraps(inj, id, positions[i]) # NoPanic}
         IN  IF bad # {}
             THEN [panic |-> [kind |-> "UnwrapNone", name |-> id], at |-> <<>>, refs |-> {}]
             ELSE [panic |-> NoPanic, at |-> positions,
                   refs |-> UNION {UnsafeStore_get(inj.items, positions[i])[1].refs :
                                      i \in DOMAIN positions}]

Lookup(inj, id, call) ==
    CASE call = "get" -> Injector_get(inj, id)
      [] call = "get_trait_object" -> Injector_get_trait_object(inj, id)
      [] call = "get_all_trait_objects" -> Injector_get_all_trait_objects(inj, id)

\* (variant) a miss leaves a default entry behind, as index.entry(id).or_default()
AfterLookup_or_default(inj, id, call) ==
    IF call = "get_all_trait_objects"
    THEN IF id \in DOMAIN inj.multi_bindings_index THEN inj
         ELSE [inj EXCEPT !.multi_bindings_index = MapInsert(@, id, <<>>)]
    ELSE IF id \in DOMAIN inj.index THEN inj
         ELSE [inj EXCEPT !.index = MapInsert(@, id, 0)]

\* the injector a lookup leaves behind: the three lookups take &self and only
\* read the maps and the store
AfterLookup(inj, id, call) == inj

\* the readers that share a reference to the sealed injector
Readers == {"reader1", "reader2"}

\* a reader that is not in a call
Idle ==
    [call |-> "none", id |-> "none", stage |-> "idle", positions |-> <<>>,
     got |-> [panic |-> NoPanic, at |-> <<>>, refs |-> {}]]

\* the first statement of get, get_trait_object and get_all_trait_objects:
\* the map is asked for the position, or the positions, of id
ReadIndex(inj, id, call) ==
    IF call = "get_all_trait_objects"
    THEN IF id \in DOMAIN inj.multi_bindings_index
         THEN Some(inj.multi_bindings_index[id]) ELSE None
    ELSE IF id \in DOMAIN inj.index THEN Some(<<inj.index[id]>>) ELSE None

\* (variant) the item is read at the position before the one asked for
ReadItem_before(inj, id, call, position) ==
    LET at == IF position > 0 THEN position - 1 ELSE position
    IN  [panic |-> Unwraps(inj, id, at),
         refs |-> IF Unwraps(inj, id, at) # NoPanic THEN {}
                  ELSE IF call = "get" THEN {at}
                  ELSE UnsafeStore_get(inj.items, at)[1].refs]

\* UnsafeStore::get(&self.items, position).unwrap().downcast_ref().unwrap():
\* get hands out a reference to the item, the other two the &dyn T in it
ReadItem(inj, id, call, position) ==
    [panic |-> Unwraps(inj, id, position),
     refs |-> IF Unwraps(inj, id, position) # NoPanic THEN {}
              ELSE IF call = "get" THEN {position}
              ELSE UnsafeStore_get(inj.items, position)[1].refs]

\* InjectMeta::create / BindingMeta::create: the generated factory fetches its
\* dependencies one after the other; the first failing lookup panics.  The
\* value built borrows from whatever the lookups returned.
RECURSIVE CreateFrom(_, _, _, _)
CreateFrom(inj, meta, i, refs) ==
    IF i > Len(meta.dependencies)
    THEN [panic |-> NoPanic, refs |-> refs]
    ELSE LET got == Lookup(inj, meta.dependencies[i], meta.create.lookups[i])
         IN  IF got.panic # NoPanic
             THEN [panic |-> got.panic, refs |-> {}]
             ELSE CreateFrom(inj, meta, i + 1, refs \cup got.refs)

Create(inj, meta) == CreateFrom(inj, meta, 1, {})

\* (variant) the list of the type is made in the multi-bindings index before
\* the flag is looked at
StoreInIndex_entry_first(inj, metadata, position) ==
    LET listed == IF metadata.this \in DOMAIN inj.multi_bindings_index
                  THEN inj
                  ELSE [inj EXCEPT !.multi_bindings_index =
                           MapInsert(@, metadata.this, <<>>)]
    IN  IF metadata.is_multi_binding
        THEN [listed EXCEPT !.multi_bindings_index[metadata.this] = Append(@, position)]
        ELSE [listed EXCEPT !.index = MapInsert(@, metadata.this, position)]

\* (variant) index.entry(this).or_insert(position): the first entry stays
StoreInIndex_or_insert(inj, metadata, position) ==
    IF metadata.is_multi_binding
    THEN [inj EXCEPT !.multi_bindings_index =
             IF metadata.this \in DOMAIN @
             THEN [@ EXCEPT ![metadata.this] = Append(@, position)]
             ELSE MapInsert(@, metadata.this, <<position>>)]
    ELSE IF metadata.this \in DOMAIN inj.index THEN inj
    ELSE [inj EXCEPT !.index = MapInsert(@, metadata.this, position)]

\* (variant) the position goes to the front of the list
StoreInIndex_prepend(inj, metadata, position) ==
    IF metadata.is_multi_binding
    THEN [inj EXCEPT !.multi_bindings_index =
             IF metadata.this \in DOMAIN @
             THEN [@ EXCEPT ![metadata.this] = <<position>> \o @]
             ELSE MapInsert(@, metadata.this, <<position>>)]
    ELSE [inj EXCEPT !.index = MapInsert(@, metadata.this, position)]

\* (variant) the flag is not looked at: the position goes to both indexes
StoreInIndex_both(inj, metadata, position) ==
    [inj EXCEPT !.multi_bindings_index =
                   IF metadata.this \in DOMAIN @
                   THEN [@ EXCEPT ![metadata.this] = Append(@, position)]
                   ELSE MapInsert(@, metadata.this, <<position>>),
                !.index = MapInsert(@, metadata.this, position)]

\* the index updates at the end of build_and_store
StoreInIndex(inj, metadata, position) ==
    IF metadata.is_multi_binding
    THEN [inj EXCEPT !.multi_bindings_index =
             IF metadata.this \in DOMAIN @
             THEN [@ EXCEPT ![metadata.this] = Append(@, position)]
             ELSE MapInsert(@, metadata.this, <<position>>)]
    ELSE [inj EXCEPT !.index = MapInsert(@, metadata.this, position)]

\* (variant) the type is asserted after the push and the index update
Injector_build_and_store_assert_late(inj, metadata, returned) ==
    LET made == Create(inj, metadata)
        static_item == [type_id |-> returned, create |-> metadata.create, refs |-> made.refs]
        position == UnsafeStore_push_output(inj.items)
        stored == [inj EXCEPT !.items = UnsafeStore_push(@, static_item)]
    IN  IF made.panic # NoPanic
        THEN [panic |-> made.panic, injector |-> inj]
        ELSE [panic |-> IF static_item.type_id # metadata.this
                        THEN [kind |-> "TypeMismatch", name |-> metadata.name]
                        ELSE NoPanic,
              injector |-> StoreInIndex(stored, metadata, position)]

\* Injector::build_and_store with a factory that returns a value of runtime
\* type `returned`: [panic, injector]
Injector_build_and_store(inj, metadata, returned) ==
    LET made == Create(inj, metadata)
        static_item == [type_id |-> returned, create |-> metadata.create, refs |-> made.refs]
        position == UnsafeStore_push_output(inj.items)
        stored == [inj EXCEPT !.items = UnsafeStore_push(@, static_item)]
    IN  IF made.panic # NoPanic
        THEN [panic |-> made.panic, injector |-> inj]
        ELSE IF static_item.type_id # metadata.this
        THEN [panic |-> [kind |-> "TypeMismatch", name |-> metadata.name], injector |-> inj]
        ELSE [panic |-> NoPanic, injector |-> StoreInIndex(stored, metadata, position)]

\* (variant) the value is pushed and the index is left alone
Injector_store_unindexed(inj, static_item) ==
    [inj EXCEPT !.items = UnsafeStore_push(@, static_item)]

\* Injector::store: the value is pushed and indexed under its own type
Injector_store(inj, static_item) ==
    LET position == UnsafeStore_push_output(inj.items)
    IN  [inj EXCEPT !.items = UnsafeStore_push(@, static_item),
                    !.index = MapInsert(@, static_item.type_id, position)]

(***************************************************************************)
(* InjectorBuilder (builder.rs).                                           *)
(***************************************************************************)
\* (variant) `all` in place of `any`
MixedGroup_all(bindings) ==
    /\ Len(bindings) > 1 \/ bindings[1].is_multi_binding
    /\ \A i \in DOMAIN bindings : ~bindings[i].is_multi_binding

\* (variant) a group is rejected when two of its flags differ
MixedGroup_disagree(bindings) ==
    \E i, j \in DOMAIN bindings : bindings[i].is_multi_binding # bindings[j].is_multi_binding

\* (variant) without the test of bindings.len()
MixedGroup_first_only(bindings) ==
    /\ bindings[1].is_multi_binding
    /\ \E i \in DOMAIN bindings : ~bindings[i].is_multi_binding

\* the check of one group of bindings in build_the_world
MixedGroup(bindings) ==
    /\ Len(bindings) > 1 \/ bindings[1].is_multi_binding
    /\ \E i \in DOMAIN bindings : ~bindings[i].is_multi_binding

\* (variant) the InjectMeta of a binding lists no dependency
MetaOfBinding_no_dependency(binding) ==
    [this |-> binding.trait_object,
     name |-> binding.name,
     dependencies |-> <<>>,
     create |-> binding.create,
     is_multi_binding |-> binding.is_multi_binding]

\* the InjectMeta build_the_world makes of a binding
MetaOfBinding(binding) ==
    [this |-> binding.trait_object,
     name |-> binding.name,
     dependencies |-> <<binding.impl_type>>,
     create |-> binding.create,
     is_multi_binding |-> binding.is_multi_binding]

Keyed(seq, key) == [i \in DOMAIN seq |-> <<seq[i][key], seq[i]>>]

all_trait_bindings(bindings) == Collect(Keyed(bindings, "trait_object"))

\* metadata_for_bindings, with the groups taken in the order `keys`
metadata_for_bindings(groups, keys) ==
    Concat([i \in DOMAIN keys |->
               [j \in DOMAIN groups[keys[i]] |-> MetaOfBinding(groups[keys[i]][j])]])

\* build_from_metadata: the MultiMap handed to topological_sort
MetasByType(metas) == Collect(Keyed(metas, "this"))

\* (variant) AfterChildren carries the first meta of the type only
AfterChildren_first(ms) ==
    [visit |-> "AfterChildren", this_type |-> "none", metas |-> SubSeq(ms, 1, 1)]

\* the elements of dfs_queue
BeforeChildren(t) == [visit |-> "BeforeChildren", this_type |-> t, metas |-> <<>>]
AfterChildren(ms) == [visit |-> "AfterChildren", this_type |-> "none", metas |-> ms]

\* (variant) the dependencies of the first meta of the type only
Children_first_meta(to_visit_metas) == to_visit_metas[1].dependencies

\* the children of a visited type: the dependencies of all its metas, in order
Children(to_visit_metas) ==
    Concat([i \in DOMAIN to_visit_metas |-> to_visit_metas[i].dependencies])

\* (variant) the outer loop does not see that the graph is empty
GraphExhausted_never(g) == FALSE

\* (variant) `if let`: the sort returns after the first walk
GraphExhausted_first_walk(g) == creation_order # <<>>

\* the outer loop of topological_sort ends: graph.keys().next() is None
GraphExhausted(g) == DOMAIN g = {}

\* (variant) graph.get(&this_type): the entry stays in the graph
GraphRemove_keep(g, this_type) == g

\* graph.remove(&this_type): what is left in the graph
GraphRemove(g, this_type) == MapRemove(g, this_type)

\* (variant) `for child in children.into_iter().rev()`
PushVisits_reversed(rest, to_visit_metas) ==
    (rest \o <<AfterChildren(to_visit_metas)>>)
        \o [i \in DOMAIN Children(to_visit_metas) |->
               BeforeChildren(Children(to_visit_metas)[
                   Len(Children(to_visit_metas)) + 1 - i])]

\* (variant) the children are pushed first and AfterChildren on top of them
PushVisits_children_first(rest, to_visit_metas) ==
    (rest \o [i \in DOMAIN Children(to_visit_metas) |->
                 BeforeChildren(Children(to_visit_metas)[i])])
        \o <<AfterChildren(to_visit_metas)>>

\* the BeforeChildren arm: AfterChildren is pushed, then every child on top
PushVisits(rest, to_visit_metas) ==
    Append(rest, AfterChildren(to_visit_metas))
        \o [i \in DOMAIN Children(to_visit_metas) |->
               BeforeChildren(Children(to_visit_metas)[i])]

(***************************************************************************)
(* The state machine.                                                      *)
(***************************************************************************)
injector == [items |-> items, index |-> index, multi_bindings_index |-> multi_bindings_index]

\* Injector::builder(): an empty injector, and the registries the linker made
Init ==
    /\ \E p \in Programs :
          /\ INJECTION_REGISTRY = p[1]
          /\ BINDING_REGISTRY = p[2]
          /\ to_inject = p[3]
    /\ pc = "new"
    /\ graph = EmptyMap
    /\ dfs_queue = <<>>
    /\ creation_order = <<>>
    /\ cursor = 1
    /\ items = Injector_builder.items
    /\ index = Injector_builder.index
    /\ multi_bindings_index = Injector_builder.multi_bindings_index
    /\ panic = NoPanic
    /\ calls = <<>>
    /\ pushed = <<>>
    /\ dropped = <<>>
    /\ lookup = NoLookup
    /\ memory = NoMemory
    /\ held = {}
    /\ visited = <<>>
    /\ visit_queue = <<>>
    /\ done = {}
    /\ in_progress = {}
    /\ create_order = <<>>
    /\ mapping = EmptyMap
    /\ prebuilds = <<>>
    /\ slots = <<>>
    /\ readers = [r \in Readers |-> Idle]

\* InjectorBuilder::inject_value, called by main before build_the_world: the
\* value goes into the injector with Injector::store
InjectValue ==
    /\ pc = "new"
    /\ to_inject # <<>>
    /\ LET after == Injector_store(injector, Head(to_inject))
       IN  /\ items' = after.items
           /\ pushed' = after.items
           /\ index' = after.index
           /\ multi_bindings_index' = after.multi_bindings_index
    /\ to_inject' = Tail(to_inject)
    /\ UNCHANGED <<visited, legacyVars, slots, readers, storeVars, lookup, registry, pc, sortVars, cursor, panic, calls, dropped>>

\* build_the_world up to the call of topological_sort: the bindings are
\* grouped by trait, each group is checked and turned into InjectMetas as
\* build_from_metadata collects the chained iterator; the groups come in the
\* order of the hash map.
BuildTheWorld ==
    /\ pc = "new"
    /\ to_inject = <<>>
    /\ LET groups == all_trait_bindings(BINDING_REGISTRY)
       IN  \E keys \in Perms(DOMAIN groups) :
              LET mixed == {i \in DOMAIN keys : MixedGroup(groups[keys[i]])}
                  first == CHOOSE i \in mixed : \A j \in mixed : i <= j
              IN  IF mixed # {}
                  THEN /\ panic' = [kind |-> "InconsistentBinding",
                                    name |-> groups[keys[first]][1].name]
                       /\ pc' = "unwinding"
                       /\ UNCHANGED graph
                  ELSE /\ graph' = MetasByType(INJECTION_REGISTRY
                                                 \o metadata_for_bindings(groups, keys))
                       /\ pc' = "sort"
                       /\ UNCHANGED panic
    /\ UNCHANGED <<visited, legacyVars, slots, readers, storeVars, to_inject, lookup, registry, dfs_queue, creation_order, cursor, injectorVars, history>>

\* topological_sort, the outer loop: any key left in the graph starts a walk
SortPickStart ==
    /\ pc = "sort"
    /\ dfs_queue = <<>>
    /\ ~GraphExhausted(graph)
    /\ \E start \in DOMAIN graph :
          dfs_queue' = <<BeforeChildren(start)>>
    /\ UNCHANGED <<visited, legacyVars, slots, readers, storeVars, to_inject, lookup, registry, pc, graph, creation_order, cursor, injectorVars, panic,
                   history>>

\* topological_sort, the inner loop: one pop of dfs_queue
SortVisit ==
    /\ pc = "sort"
    /\ dfs_queue # <<>>
    /\ LET to_visit == dfs_queue[Len(dfs_queue)]
           rest == SubSeq(dfs_queue, 1, Len(dfs_queue) - 1)
       IN  IF to_visit.visit = "BeforeChildren"
           THEN IF to_visit.this_type \notin DOMAIN graph
                THEN /\ dfs_queue' = rest
                     /\ UNCHANGED <<graph, creation_order, visited>>
                ELSE LET to_visit_metas == graph[to_visit.this_type]
                     IN  /\ graph' = GraphRemove(graph, to_visit.this_type)
                         /\ dfs_queue' = PushVisits(rest, to_visit_metas)
                         /\ visited' = Append(visited, to_visit.this_type)
                         /\ UNCHANGED creation_order
           ELSE /\ creation_order' = creation_order \o to_visit.metas
                /\ dfs_queue' = rest
                /\ UNCHANGED <<graph, visited>>
    /\ UNCHANGED <<legacyVars, slots, readers, storeVars, to_inject, lookup, registry, pc, cursor, injectorVars, panic, history>>

\* topological_sort returns: the graph is empty
SortReturn ==
    /\ pc = "sort"
    /\ dfs_queue = <<>>
    /\ GraphExhausted(graph)
    /\ pc' = "build"
    /\ cursor' = 1
    /\ UNCHANGED <<visited, legacyVars, slots, readers, storeVars, to_inject, lookup, registry, sortVars, injectorVars, panic, history>>

\* build_from_metadata, one iteration of `for meta in sorted`: build_and_store.
\* The factory returns a value of the declared type or of another one.  A
\* panic unwinds build_from_metadata, which owns the builder and its injector
\* (a value of the wrong type is a local of build_and_store and is released
\* before them).
BuildAndStore ==
    /\ pc = "build"
    /\ cursor <= Len(creation_order)
    /\ LET meta == creation_order[cursor]
       IN  \E returned \in {meta.this, WrongType} :
              LET after == Injector_build_and_store(injector, meta, returned)
              IN  /\ calls' = Append(calls, meta.create)
                  /\ items' = after.injector.items
                  /\ pushed' = after.injector.items
                  /\ index' = after.injector.index
                  /\ multi_bindings_index' = after.injector.multi_bindings_index
                  /\ panic' = after.panic
                  /\ IF after.panic = NoPanic
                     THEN pc' = pc /\ cursor' = cursor + 1
                     ELSE pc' = "unwinding" /\ cursor' = cursor
    /\ UNCHANGED <<visited, legacyVars, slots, readers, storeVars, to_inject, lookup, registry, sortVars, dropped>>

\* build_from_metadata returns self.injector: the injector is sealed
Seal ==
    /\ pc = "build"
    /\ cursor > Len(creation_order)
    /\ pc' = "sealed"
    /\ UNCHANGED <<visited, legacyVars, slots, readers, storeVars, to_inject, lookup, registry, sortVars, cursor, injectorVars, panic, history>>

\* the calls a client may make: get for any type id, the two trait object
\* lookups for a trait
ClientCalls ==
    {<<id, "get">> : id \in TypeIds}
        \cup {<<id, call>> : id \in Traits,
                             call \in {"get_trait_object", "get_all_trait_objects"}}

\* a client calls get, get_trait_object or get_all_trait_objects on the
\* sealed injector; a panic of the call is caught at the call site
SealedLookup ==
    /\ pc = "sealed"
    /\ \E c \in ClientCalls :
          LET got == Lookup(injector, c[1], c[2])
              left == AfterLookup(injector, c[1], c[2])
          IN  /\ lookup' = [call |-> c[2], id |-> c[1], panic |-> got.panic,
                            at |-> got.at, refs |-> got.refs]
              /\ items' = left.items
              /\ index' = left.index
              /\ multi_bindings_index' = left.multi_bindings_index
    /\ UNCHANGED <<visited, legacyVars, slots, readers, storeVars, to_inject, registry, pc, sortVars, cursor, panic, history>>

\* the owner lets go of the sealed injector; the borrows of the lookups have
\* ended by then
DropInjector ==
    /\ pc = "sealed"
    /\ pc' = "dropping"
    /\ lookup' = NoLookup
    /\ UNCHANGED <<visited, legacyVars, slots, readers, storeVars, to_inject, registry, sortVars, cursor, injectorVars, panic, history>>

\* impl Drop for UnsafeStore, one iteration of the loop; it runs when the
\* injector is dropped and when a panic unwinds the builder that owns it
DropItem ==
    /\ pc \in {"dropping", "unwinding"}
    /\ items # <<>>
    /\ dropped' = Append(dropped, UnsafeStore_drop_step(items).item)
    /\ items' = UnsafeStore_drop_step(items).items
    /\ UNCHANGED <<visited, legacyVars, slots, readers, storeVars, to_inject, lookup, registry, pc, sortVars, cursor, index, multi_bindings_index, panic,
                   calls, pushed>>

\* a reader calls get, get_trait_object or get_all_trait_objects on its
\* shared reference to the sealed injector
ReaderCall(r) ==
    /\ pc = "sealed"
    /\ readers[r].stage \in {"idle", "returned"}
    /\ \E c \in ClientCalls :
          readers' = [readers EXCEPT ![r] =
                         [Idle EXCEPT !.call = c[2], !.id = c[1], !.stage = "index"]]
    /\ UNCHANGED <<visited, legacyVars, slots, storeVars, to_inject, lookup, registry, pc, sortVars, cursor, injectorVars,
                   panic, history>>

\* the reader's call looks id up in the map: a miss panics, and the panic is
\* caught at the call site
ReaderIndex(r) ==
    /\ pc = "sealed"
    /\ readers[r].stage = "index"
    /\ LET me == readers[r]
           found == ReadIndex(injector, me.id, me.call)
           left == AfterLookup(injector, me.id, me.call)
       IN  /\ readers' = [readers EXCEPT ![r] =
                  IF found = None
                  THEN [me EXCEPT !.stage = "returned",
                                  !.got.panic = [kind |-> "LookupMiss", name |-> me.id]]
                  ELSE IF found[1] = <<>>
                  THEN [me EXCEPT !.stage = "returned"]
                  ELSE [me EXCEPT !.stage = "items", !.positions = found[1]]]
           /\ items' = left.items
           /\ index' = left.index
           /\ multi_bindings_index' = left.multi_bindings_index
    /\ UNCHANGED <<visited, legacyVars, slots, storeVars, to_inject, lookup, registry, pc, sortVars, cursor, panic, history>>

\* the reader's call reads the item at its next position; the call returns
\* after the last one, or panics at an item that is not there or is not of
\* the type asked for
ReaderItem(r) ==
    /\ pc = "sealed"
    /\ readers[r].stage = "items"
    /\ LET me == readers[r]
           position == me.positions[Len(me.got.at) + 1]
           read == ReadItem(injector, me.id, me.call, position)
           left == AfterLookup(injector, me.id, me.call)
       IN  /\ readers' = [readers EXCEPT ![r] =
                  IF read.panic # NoPanic
                  THEN [me EXCEPT !.stage = "returned", !.positions = <<>>,
                                  !.got = [panic |-> IF me.call = "get_all_trait_objects"
                                                     THEN [kind |-> "UnwrapNone", name |-> me.id]
                                                     ELSE read.panic,
                                           at |-> <<>>, refs |-> {}]]
                  ELSE IF Len(me.got.at) + 1 = Len(me.positions)
                  THEN [me EXCEPT !.stage = "returned", !.positions = <<>>,
                                  !.got.at = Append(@, position),
                                  !.got.refs = @ \cup read.refs]
                  ELSE [me EXCEPT !.got.at = Append(@, position),
                                  !.got.refs = @ \cup read.refs]]
           /\ items' = left.items
           /\ index' = left.index
           /\ multi_bindings_index' = left.multi_bindings_index
    /\ UNCHANGED <<visited, legacyVars, slots, storeVars, to_inject, lookup, registry, pc, sortVars, cursor, panic, history>>

(***************************************************************************)
(* An UnsafeStore on its own, followed by address (the test                *)
(* pointers_are_stable): items are pushed and references are taken in any  *)
(* order.                                                                  *)
(***************************************************************************)
StoreInit ==
    /\ INJECTION_REGISTRY = <<>>
    /\ BINDING_REGISTRY = <<>>
    /\ to_inject = <<>>
    /\ pc = "store"
    /\ graph = EmptyMap
    /\ dfs_queue = <<>>
    /\ creation_order = <<>>
    /\ cursor = 1
    /\ items = UnsafeStore_new
    /\ index = EmptyMap
    /\ multi_bindings_index = EmptyMap
    /\ panic = NoPanic
    /\ calls = <<>>
    /\ pushed = <<>>
    /\ dropped = <<>>
    /\ lookup = NoLookup
    /\ memory = NoMemory
    /\ held = {}
    /\ visited = <<>>
    /\ visit_queue = <<>>
    /\ done = {}
    /\ in_progress = {}
    /\ create_order = <<>>
    /\ mapping = EmptyMap
    /\ prebuilds = <<>>
    /\ slots = <<>>
    /\ readers = [r \in Readers |-> Idle]

\* UnsafeStore::push(&mut store, Box::new(value)): the allocator picks the
\* address of the Box and, when the Vec is full, the address and the
\* capacity of its new buffer
StorePush ==
    /\ pc = "store"
    /\ Len(items) < MaxItems
    /\ \E a \in Free(memory) :
          LET item == BoxedValue(Len(items))
              boxed == Box_new(memory, a, item)
          IN  \E b \in (Free(boxed) \cup {boxed.ptr}) \ {0},
                    new_cap \in (Len(items) + 1)..MaxItems :
                 /\ Len(items) < memory.cap => (b = memory.ptr /\ new_cap = memory.cap)
                 /\ memory' = Vec_push(boxed, a, b, new_cap)
                 /\ items' = UnsafeStore_push(items, item)
                 /\ pushed' = UnsafeStore_push(items, item)
                 /\ slots' = Append(slots, UnsafeStore_push_output(items))
    /\ UNCHANGED <<visited, legacyVars, readers, held, to_inject, lookup, registry, pc, sortVars, cursor, index,
                   multi_bindings_index, panic, calls, dropped>>

\* let reference = UnsafeStore::get(&store, item): the caller keeps the
\* pointer and remembers what it saw behind it (and, for the record, where
\* the buffer of the Vec was at the time)
StoreGet ==
    /\ pc = "store"
    /\ Cardinality(held) < MaxHeld
    /\ \E item \in 0..MaxItems :
          LET got == UnsafeStore_get_ref(memory, item)
          IN  held' = IF got = None THEN held
                      ELSE held \cup {[slot |-> item, ptr |-> got[1],
                                        value |-> Deref(memory, got[1]),
                                        buffer |-> memory.ptr]}
    /\ UNCHANGED <<visited, legacyVars, slots, readers, memory, to_inject, lookup, registry, pc, sortVars, cursor, injectorVars,
                   panic, history>>

StoreNext ==
    \/ StorePush
    \/ StoreGet

StoreSpec == StoreInit /\ [][StoreNext]_vars

Next ==
    \/ InjectValue
    \/ BuildTheWorld
    \/ SortPickStart
    \/ SortVisit
    \/ SortReturn
    \/ BuildAndStore
    \/ Seal
    \/ SealedLookup
    \/ DropInjector
    \/ DropItem

Spec == Init /\ [][Next]_vars

(***************************************************************************)
(* The build alone, as the single thread that runs Injector::new takes it: *)
(* a step that can be taken is taken.                                      *)
(***************************************************************************)
BuildNext ==
    \/ BuildTheWorld
    \/ SortPickStart
    \/ SortVisit
    \/ SortReturn
    \/ BuildAndStore
    \/ Seal

\* the registries whose build is followed to its end: every one of
\* Registries (cyclic ones, ones that name a type without a descriptor and
\* ones with two descriptors for a type included), with nothing seeded
BuildPrograms == {<<r[1], r[2], <<>>>> : r \in Registries}

BuildInit ==
    /\ Init
    /\ <<INJECTION_REGISTRY, BINDING_REGISTRY, to_inject>> \in BuildPrograms

\* the thread that called build_the_world leaves the call site: the call
\* can be made in every state with pc = "new" of BuildInit (nothing is
\* seeded, and the binding groups always have an iteration order), and it
\* ends in the sort or in the panic of the binding check
BuildTheWorldRuns == pc = "new" /\ pc' \in {"sort", "unwinding"}

\* the statements that follow the binding check
BuildContinues ==
    \/ SortPickStart
    \/ SortVisit
    \/ SortReturn
    \/ BuildAndStore
    \/ Seal

\* a sequential program: the statement the thread is at is executed
BuildSpec ==
    /\ BuildInit
    /\ [][BuildNext]_vars
    /\ WF_pc(BuildTheWorldRuns)
    /\ WF_vars(BuildContinues)

(***************************************************************************)
(* Several readers share the sealed injector: each of them makes its calls *)
(* one statement at a time, interleaved with the statements of the others. *)
(***************************************************************************)
\* the programs whose sealed injector the readers share: objects without
\* dependencies and the bindings of a trait to them
ReaderPrograms == {<<r[1], r[2], <<>>>> : r \in FamilyBindings}

ReadersInit ==
    /\ Init
    /\ <<INJECTION_REGISTRY, BINDING_REGISTRY, to_inject>> \in ReaderPrograms

ReadersNext ==
    \/ BuildTheWorld
    \/ SortPickStart
    \/ SortVisit
    \/ SortReturn
    \/ BuildAndStore
    \/ Seal
    \/ \E r \in Readers : ReaderCall(r)
    \/ \E r \in Readers : ReaderIndex(r)
    \/ \E r \in Readers : ReaderItem(r)

ReadersSpec == ReadersInit /\ [][ReadersNext]_vars

(***************************************************************************)
(* The first Injector (runtime.rs, and the same code in lib.rs): the       *)
(* program calls prebuild::<I>() on it and then get.  main.rs is its       *)
(* program; its descriptors depend on concrete types only.                 *)
(***************************************************************************)
\* main.rs: the types of the program
LegacyTypes == {"Everything", "HoldsAnEmpty", "HasData", "Empty"}

\* the most prebuild calls a program makes on its injector
MaxPrebuilds == 2

\* the registries of the program: Everything has a dependency list of at most
\* MaxDeps types, HoldsAnEmpty and HasData depend on one type at most and
\* Empty on none; all but Everything are registered or not.  A list may name
\* any type, its own and one twice included.
LegacyRegistries ==
    LET Gets(d) == [i \in DOMAIN d |-> <<d[i], "get">>]
        Top == {<<<<"Everything", Gets(d)>>>> : d \in SeqsUpTo(LegacyTypes, MaxDeps)}
        Entries(t) == {<<>>} \cup {<<<<t, Gets(d)>>>> : d \in SeqsUpTo(LegacyTypes, 1)}
        Raw == {a \o b \o c \o e : a \in Top, b \in Entries("HoldsAnEmpty"),
                                  c \in Entries("HasData"),
                                  e \in {<<>>, <<<<"Empty", <<>>>>>>}}
    IN  {[i \in DOMAIN r |-> InjectMetaOf(r[i][1], r[i][2], i)] : r \in Raw}

\* lazy_static INJECTIONS_INDEX: the registry collected into a HashMap keyed
\* by `this`; a later entry of a type replaces an earlier one
INJECTIONS_INDEX ==
    LET last(t) == CHOOSE i \in DOMAIN INJECTION_REGISTRY :
                      /\ INJECTION_REGISTRY[i].this = t
                      /\ \A j \in DOMAIN INJECTION_REGISTRY :
                            INJECTION_REGISTRY[j].this = t => j <= i
    IN  [t \in {INJECTION_REGISTRY[i].this : i \in DOMAIN INJECTION_REGISTRY} |->
            INJECTION_REGISTRY[last(t)]]

\* the Injector of runtime.rs
legacy_injector == [items |-> items, mapping |-> mapping]

\* the elements of visit_queue
Visit(t, visit_type) == <<t, visit_type>>

\* (variant) push_back: the visits of a dependency go to the end of the queue
RECURSIVE PushDependencies_back(_, _, _)
PushDependencies_back(queue, dependencies, finished) ==
    IF dependencies = <<>> THEN queue
    ELSE LET dep == Head(dependencies)
         IN  PushDependencies_back(
                 IF dep \in finished THEN queue
                 ELSE queue \o <<Visit(dep, "BeforeChildren"), Visit(dep, "AfterChildren")>>,
                 Tail(dependencies), finished)

\* (variant) the two push_front calls are swapped: AfterChildren comes first
RECURSIVE PushDependencies_after_first(_, _, _)
PushDependencies_after_first(queue, dependencies, finished) ==
    IF dependencies = <<>> THEN queue
    ELSE LET dep == Head(dependencies)
         IN  PushDependencies_after_first(
                 IF dep \in finished THEN queue
                 ELSE <<Visit(dep, "AfterChildren"), Visit(dep, "BeforeChildren")>> \o queue,
                 Tail(dependencies), finished)

\* `for dep in meta.dependencies.iter()`: the two visits of every dependency
\* that is not done are pushed to the front of the queue
RECURSIVE PushDependencies(_, _, _)
PushDependencies(queue, dependencies, finished) ==
    IF dependencies = <<>> THEN queue
    ELSE LET dep == Head(dependencies)
         IN  PushDependencies(
                 IF dep \in finished THEN queue
                 ELSE <<Visit(dep, "BeforeChildren"), Visit(dep, "AfterChildren")>> \o queue,
                 Tail(dependencies), finished)

\* assert!(in_progress.insert(to_visit), "Loop detected ..."): insert returns
\* false for a type that is in the set already
LoopDetected(visiting, to_visit) == to_visit \in visiting

\* Injector::get of runtime.rs: the item at mapping[id]
Runtime_Injector_get(inj, id) ==
    IF id \notin DOMAIN inj.mapping
    THEN [panic |-> [kind |-> "NotOwned", name |-> id], at |-> <<>>, refs |-> {}]
    ELSE LET list_index == inj.mapping[id]
         IN  IF list_index + 1 \notin DOMAIN inj.items
                    \/ inj.items[list_index + 1].type_id # id
             THEN [panic |-> [kind |-> "UnwrapNone", name |-> id], at |-> <<>>, refs |-> {}]
             ELSE [panic |-> NoPanic, at |-> <<list_index>>, refs |-> {list_index}]

\* (meta.create)(&self), as main.rs writes the factories: injector.get() for
\* every dependency, in order; the value borrows what the calls returned
RECURSIVE Runtime_create(_, _, _, _)
Runtime_create(inj, meta, i, refs) ==
    IF i > Len(meta.dependencies)
    THEN [panic |-> NoPanic, refs |-> refs]
    ELSE LET got == Runtime_Injector_get(inj, meta.dependencies[i])
         IN  IF got.panic # NoPanic
             THEN [panic |-> got.panic, refs |-> {}]
             ELSE Runtime_create(inj, meta, i + 1, refs \cup got.refs)

\* (variant) the length after the push is stored in the mapping
Runtime_list_index_len(stored) == Len(stored)

\* self.items.len() - 1 after the push: the place of the value in items
Runtime_list_index(stored) == Len(stored) - 1

\* (variant) the types the injector holds already count as done
Prebuild_done_remembered(inj) == DOMAIN inj.mapping

\* `let mut done = HashSet::new()`: the set a prebuild call on the injector
\* starts with, whatever the injector holds
Prebuild_done(inj) == {}

\* Injector::new() of runtime.rs, and the registry the linker made
LegacyInit ==
    /\ INJECTION_REGISTRY \in LegacyRegistries
    /\ BINDING_REGISTRY = <<>>
    /\ to_inject = <<>>
    /\ pc = "legacy"
    /\ graph = EmptyMap
    /\ dfs_queue = <<>>
    /\ creation_order = <<>>
    /\ cursor = 1
    /\ items = <<>>
    /\ index = EmptyMap
    /\ multi_bindings_index = EmptyMap
    /\ panic = NoPanic
    /\ calls = <<>>
    /\ pushed = <<>>
    /\ dropped = <<>>
    /\ lookup = NoLookup
    /\ memory = NoMemory
    /\ held = {}
    /\ visited = <<>>
    /\ readers = [r \in Readers |-> Idle]
    /\ slots = <<>>
    /\ visit_queue = <<>>
    /\ done = {}
    /\ in_progress = {}
    /\ create_order = <<>>
    /\ mapping = EmptyMap
    /\ prebuilds = <<>>

\* injector.prebuild::<I>() is called: the locals are made afresh and the two
\* visits of the start are queued.  prebuild takes &mut self, so no
\* reference a get returned is alive.
Prebuild ==
    /\ pc = "legacy"
    /\ Len(prebuilds) < MaxPrebuilds
    /\ \E start \in LegacyTypes :
          /\ visit_queue' = <<Visit(start, "BeforeChildren"), Visit(start, "AfterChildren")>>
          /\ prebuilds' = Append(prebuilds, [start |-> start, calls_before |-> Len(calls)])
    /\ create_order' = <<>>
    /\ done' = Prebuild_done(legacy_injector)
    /\ in_progress' = {}
    /\ pc' = "visit"
    /\ lookup' = NoLookup
    /\ UNCHANGED <<visited, mapping, slots, readers, storeVars, to_inject, registry, sortVars, cursor,
                   injectorVars, panic, history>>

\* prebuild, one iteration of `while let Some(..) = visit_queue.pop_front()`
PrebuildVisit ==
    /\ pc = "visit"
    /\ visit_queue # <<>>
    /\ LET to_visit == Head(visit_queue)[1]
           visit_type == Head(visit_queue)[2]
           rest == Tail(visit_queue)
       IN  IF to_visit \in done
           THEN /\ visit_queue' = rest
                /\ UNCHANGED <<done, in_progress, create_order, pc, panic>>
           ELSE IF visit_type = "BeforeChildren"
           THEN IF to_visit \notin DOMAIN INJECTIONS_INDEX
                THEN /\ panic' = [kind |-> "UnwrapNone", name |-> to_visit]
                     /\ pc' = "aborted"
                     /\ visit_queue' = rest
                     /\ UNCHANGED <<done, in_progress, create_order>>
                ELSE IF LoopDetected(in_progress, to_visit)
                THEN /\ panic' = [kind |-> "LoopDetected",
                                  name |-> INJECTIONS_INDEX[to_visit].name]
                     /\ pc' = "aborted"
                     /\ visit_queue' = rest
                     /\ UNCHANGED <<done, in_progress, create_order>>
                ELSE /\ in_progress' = in_progress \cup {to_visit}
                     /\ visit_queue' = PushDependencies(
                            rest, INJECTIONS_INDEX[to_visit].dependencies, done)
                     /\ UNCHANGED <<done, create_order, pc, panic>>
           ELSE /\ create_order' = Append(create_order, to_visit)
                /\ in_progress' = in_progress \ {to_visit}
                /\ done' = done \cup {to_visit}
                /\ visit_queue' = rest
                /\ UNCHANGED <<pc, panic>>
    /\ UNCHANGED <<visited, mapping, prebuilds, slots, readers, storeVars, to_inject, lookup, registry,
                   sortVars, cursor, injectorVars, history>>

\* prebuild: the queue is empty, `for item in create_order` begins
PrebuildSorted ==
    /\ pc = "visit"
    /\ visit_queue = <<>>
    /\ pc' = "create"
    /\ cursor' = 1
    /\ UNCHANGED <<visited, legacyVars, slots, readers, storeVars, to_inject, lookup, registry, sortVars,
                   injectorVars, panic, history>>

\* prebuild, one iteration of `for item in create_order`: the factory runs,
\* its value is pushed and mapping[item] is set to its place
PrebuildCreate ==
    /\ pc = "create"
    /\ cursor <= Len(create_order)
    /\ LET item == create_order[cursor]
           meta == INJECTIONS_INDEX[item]
           output == Runtime_create(legacy_injector, meta, 1, {})
       IN  /\ calls' = Append(calls, meta.create)
           /\ IF output.panic # NoPanic
              THEN /\ panic' = output.panic
                   /\ pc' = "aborted"
                   /\ UNCHANGED <<items, pushed, mapping, cursor>>
              ELSE /\ items' = Append(items, [type_id |-> item, create |-> meta.create,
                                              refs |-> output.refs])
                   /\ pushed' = items'
                   /\ mapping' = MapInsert(mapping, item, Runtime_list_index(items'))
                   /\ cursor' = cursor + 1
                   /\ UNCHANGED <<pc, panic>>
    /\ UNCHANGED <<visited, visit_queue, done, in_progress, create_order, prebuilds, slots, readers,
                   storeVars, to_inject, lookup, registry, sortVars, index,
                   multi_bindings_index, dropped>>

\* prebuild returns
PrebuildReturn ==
    /\ pc = "create"
    /\ cursor > Len(create_order)
    /\ pc' = "legacy"
    /\ UNCHANGED <<visited, legacyVars, slots, readers, storeVars, to_inject, lookup, registry, sortVars,
                   cursor, injectorVars, panic, history>>

\* the program calls injector.get::<I>() between prebuild calls; a panic of
\* the call is caught at the call site
LegacyGet ==
    /\ pc = "legacy"
    /\ \E id \in LegacyTypes :
          LET got == Runtime_Injector_get(legacy_injector, id)
          IN  lookup' = [call |-> "get", id |-> id, panic |-> got.panic,
                         at |-> got.at, refs |-> got.refs]
    /\ UNCHANGED <<visited, legacyVars, slots, readers, storeVars, to_inject, registry, pc, sortVars,
                   cursor, injectorVars, panic, history>>

LegacyNext ==
    \/ Prebuild
    \/ PrebuildVisit
    \/ PrebuildSorted
    \/ PrebuildCreate
    \/ PrebuildReturn
    \/ LegacyGet

LegacySpec == LegacyInit /\ [][LegacyNext]_vars

(***************************************************************************)
(* The registered descriptors as a dependency graph.                       *)
(***************************************************************************)
\* every descriptor of the build, in registration order
AllMetas ==
    INJECTION_REGISTRY \o [i \in DOMAIN BINDING_REGISTRY |-> MetaOfBinding(BINDING_REGISTRY[i])]

Registered == {AllMetas[i].this : i \in DOMAIN AllMetas}

MetasOf(t) == {i \in DOMAIN AllMetas : AllMetas[i].this = t}

DependenciesOf(t) == UNION {Range(AllMetas[i].dependencies) : i \in MetasOf(t)}

RECURSIVE ReachableFrom(_, _)
ReachableFrom(S, n) ==
    IF n = 0 THEN S
    ELSE ReachableFrom(S \cup UNION {DependenciesOf(t) : t \in S}, n - 1)

\* the types that depend, transitively, on themselves
OnCycle == {t \in Registered : t \in ReachableFrom(DependenciesOf(t), Cardinality(TypeIds))}

Cyclic == OnCycle # {}

AllDependenciesRegistered == \A t \in Registered : DependenciesOf(t) \subseteq Registered

Count(seq, x) == Cardinality({i \in DOMAIN seq : seq[i] = x})

Creates(seq) == [i \in DOMAIN seq |-> seq[i].create]

BindingsOf(trait) == SelectSeq(BINDING_REGISTRY, LAMBDA b : b.trait_object = trait)

Building == pc = "build" /\ cursor <= Len(creation_order)

(***************************************************************************)
(* Ordering of the construction.                                           *)
(***************************************************************************)
\* C1: in a registry without a dependency cycle in which every dependency is
\* registered, when the factory of a descriptor is about to run, every
\* descriptor of every type in its dependency list comes earlier in the
\* construction order, has been built, and the type has its entry in the
\* index or in the multi-bindings index.
C1_DependenciesBuiltFirst ==
    (Building /\ AllDependenciesRegistered /\ ~Cyclic) =>
        \A dep \in Range(creation_order[cursor].dependencies) :
            /\ dep \in DOMAIN index \cup DOMAIN multi_bindings_index
            /\ \A j \in DOMAIN creation_order : creation_order[j].this = dep => j < cursor
            /\ \A i \in MetasOf(dep) :
                  \E k \in DOMAIN items : items[k].create = AllMetas[i].create

\* a descriptor with two dependencies is about to be built third or later
C1_Witness ==
    /\ Building
    /\ cursor >= 3
    /\ Len(creation_order[cursor].dependencies) = 2
    /\ AllDependenciesRegistered /\ ~Cyclic

\* the descriptors of the types that are single-valued and registered once
SingleOnce ==
    {i \in DOMAIN AllMetas :
        ~AllMetas[i].is_multi_binding /\ MetasOf(AllMetas[i].this) = {i}}

Dependents(t) == {j \in DOMAIN AllMetas : t \in Range(AllMetas[j].dependencies)}

\* C2: the descriptor of a single-valued type registered once is put in the
\* construction order at most once and its factory is invoked at most once;
\* when the build has returned the injector it has been invoked exactly once.
C2_FactoryRunsOnce ==
    \A i \in SingleOnce :
        /\ Count(Creates(creation_order), AllMetas[i].create) <= 1
        /\ Count(calls, AllMetas[i].create) <= 1
        /\ pc = "sealed" => Count(calls, AllMetas[i].create) = 1

\* a build has returned in which one type is a dependency of two descriptors
C2_Witness ==
    /\ pc = "sealed"
    /\ \E i \in SingleOnce : Cardinality(Dependents(AllMetas[i].this)) >= 2

\* the bindings of some trait carry both flags
MixedBindings ==
    \E i, j \in DOMAIN BINDING_REGISTRY :
        /\ BINDING_REGISTRY[i].trait_object = BINDING_REGISTRY[j].trait_object
        /\ BINDING_REGISTRY[i].is_multi_binding
        /\ ~BINDING_REGISTRY[j].is_multi_binding

\* C3: a registry with a dependency cycle (and no other fault) never yields
\* an injector, and the panic that ends its build is a cycle-detected error
\* naming a type on the cycle.
C3_CycleDetected ==
    ((pc = "sealed" \/ panic.kind \notin {"none", "TypeMismatch"})
        /\ ~MixedBindings /\ AllDependenciesRegistered /\ Cyclic) =>
        /\ pc # "sealed"
        /\ panic.kind = "CycleDetected"
        /\ panic.name \in OnCycle

(***************************************************************************)
(* The store.                                                              *)
(***************************************************************************)
\* C4: the value at position k borrows only from positions below k.
C4_BackReferencesOnly ==
    \A k \in DOMAIN items : items[k].refs \subseteq 0..(k - 2)

\* a sealed injector holds, third or later, a value that borrows from two others
C4_Witness ==
    /\ pc = "sealed"
    /\ \E k \in DOMAIN items : k >= 3 /\ Cardinality(items[k].refs) = 2

Dropping == pc \in {"dropping", "unwinding"}

\* C5: the teardown of a store of N items releases item N-1, then N-2, ...,
\* down to item 0: the i-th item released is the i-th from the end, and the
\* items not yet released are the first ones, still in the store.
C5_ReverseOrderRelease ==
    Dropping =>
        /\ Len(items) + Len(dropped) = Len(pushed)
        /\ \A i \in DOMAIN dropped : dropped[i] = pushed[Len(pushed) + 1 - i]
        /\ \A k \in DOMAIN items : items[k] = pushed[k]

\* a sealed injector of three or more items has been released entirely
C5_Witness ==
    /\ pc = "dropping"
    /\ items = <<>>
    /\ Len(dropped) >= 3

\* C6: at every step of a teardown, what a value still in the store borrows
\* from has not been released.
C6_NoDanglingReference ==
    \A k \in DOMAIN items : \A r \in items[k].refs :
        /\ r + 1 \in DOMAIN pushed
        /\ pushed[r + 1] \notin Range(dropped)

\* an aborted build is part-way through its teardown and a value still in the
\* store borrows from another
C6_Witness ==
    /\ pc = "unwinding"
    /\ dropped # <<>>
    /\ \E k \in DOMAIN items : items[k].refs # {}

(***************************************************************************)
(* Bindings.                                                               *)
(***************************************************************************)
AllMultiBindings(trait) ==
    /\ BindingsOf(trait) # <<>>
    /\ \A i \in DOMAIN BindingsOf(trait) : BindingsOf(trait)[i].is_multi_binding

\* C7: when every binding of a trait is a multi binding, get_all_trait_objects
\* on the sealed injector yields one trait object per binding, in the order
\* of BINDING_REGISTRY: the i-th is the one the i-th binding's factory made
\* and it points to the instance of that binding's impl_type.
C7_MultiBindingsInRegistrationOrder ==
    \A trait \in Traits :
        (pc = "sealed" /\ AllMultiBindings(trait)) =>
            LET got == Injector_get_all_trait_objects(injector, trait)
                bindings == BindingsOf(trait)
            IN  /\ got.panic = NoPanic
                /\ Len(got.at) = Len(bindings)
                /\ \A i \in DOMAIN bindings :
                      /\ bindings[i].impl_type \in DOMAIN index
                      /\ UnsafeStore_get(items, got.at[i]) =
                            Some([type_id |-> trait,
                                  create |-> bindings[i].create,
                                  refs |-> {index[bindings[i].impl_type]}])

\* three multi bindings of a trait have been built
C7_Witness ==
    /\ pc = "sealed"
    /\ AllMultiBindings("T")
    /\ Len(BindingsOf("T")) = 3

MixedBindingsOf(trait) ==
    \E i, j \in DOMAIN BindingsOf(trait) :
        BindingsOf(trait)[i].is_multi_binding /\ ~BindingsOf(trait)[j].is_multi_binding

\* C8: when a trait has a binding and a multi binding, the build ends in the
\* inconsistent-binding panic naming the trait before the sort starts: no
\* factory is invoked, nothing is stored and no injector is returned.
C8_MixedBindingsRejected ==
    \A trait \in Traits :
        MixedBindingsOf(trait) =>
            /\ pc \in {"new", "unwinding"}
            /\ pc = "unwinding" => panic = [kind |-> "InconsistentBinding", name |-> trait]
            /\ calls = <<>>
            /\ pushed = <<>>

\* the build of a registry with mixed bindings has panicked
C8_Witness ==
    /\ MixedBindingsOf("T")
    /\ pc = "unwinding"

SeveralSingleBindings(trait) ==
    /\ Len(BindingsOf(trait)) >= 2
    /\ \A i \in DOMAIN BindingsOf(trait) : ~BindingsOf(trait)[i].is_multi_binding

\* C9: a trait with two or more bindings, none a multi binding, makes the
\* build panic before the sort starts; a trait that has a single-valued
\* binding in a sealed injector has exactly one binding.
C9_OneSingleBinding ==
    \A trait \in Traits :
        /\ SeveralSingleBindings(trait) =>
              /\ pc \in {"new", "unwinding"}
              /\ pc = "unwinding" => panic.kind = "InconsistentBinding"
              /\ calls = <<>>
        /\ (pc = "sealed"
              /\ \E i \in DOMAIN BindingsOf(trait) : ~BindingsOf(trait)[i].is_multi_binding)
              => Len(BindingsOf(trait)) = 1

\* the build of a registry with two single-valued bindings of a trait has
\* panicked
C9_Witness ==
    /\ SeveralSingleBindings("T")
    /\ pc = "unwinding"

(***************************************************************************)
(* The indexes.                                                            *)
(***************************************************************************)
\* the item at `position` exists and has the runtime type `id`
Holds(position, id) ==
    /\ UnsafeStore_get(items, position) # None
    /\ UnsafeStore_get(items, position)[1].type_id = id

\* C10: while the build runs its factories and once the injector is sealed,
\* every position in the index and in the lists of the multi-bindings index
\* is a position of the store, and the item there has the type of the key.
C10_IndexedPositionsHold ==
    pc \in {"build", "sealed"} =>
        /\ \A id \in DOMAIN index : Holds(index[id], id)
        /\ \A id \in DOMAIN multi_bindings_index :
              \A i \in DOMAIN multi_bindings_index[id] :
                  Holds(multi_bindings_index[id][i], id)

\* factories are still to run and both indexes have entries
C10_Witness ==
    /\ Building
    /\ DOMAIN index # {}
    /\ \E id \in DOMAIN multi_bindings_index : Len(multi_bindings_index[id]) >= 2

(***************************************************************************)
(* What the sealed injector resolves.                                      *)
(***************************************************************************)
\* the factories registered for the type id
CreatesOf(id) == {AllMetas[i].create : i \in MetasOf(id)}

\* C11: when the build has returned the injector, get resolves every type of
\* INJECTION_REGISTRY and every trait with a single-valued binding to an item
\* one of its own factories made, and get_all_trait_objects resolves every
\* trait with multi bindings to one item per binding; this includes the types
\* no descriptor depends on.
C11_WholeRegistryResolvable ==
    pc = "sealed" =>
        /\ \A i \in DOMAIN AllMetas :
              ~AllMetas[i].is_multi_binding =>
                  LET got == Injector_get(injector, AllMetas[i].this)
                  IN  /\ got.panic = NoPanic
                      /\ items[got.at[1] + 1].create \in CreatesOf(AllMetas[i].this)
        /\ \A trait \in Traits :
              /\ (BindingsOf(trait) # <<>> /\ ~AllMultiBindings(trait)) =>
                    Injector_get_trait_object(injector, trait).panic = NoPanic
              /\ AllMultiBindings(trait) =>
                    LET got == Injector_get_all_trait_objects(injector, trait)
                    IN  /\ got.panic = NoPanic
                        /\ {items[got.at[k] + 1].create : k \in DOMAIN got.at}
                              = CreatesOf(trait)

\* a sealed injector of three registered types, two of which no descriptor
\* depends on
C11_Witness ==
    /\ pc = "sealed"
    /\ Len(INJECTION_REGISTRY) = 3
    /\ Cardinality({t \in Registered : Dependents(t) = {}}) >= 2

\* the dependencies of the descriptor that have no descriptor and no injected
\* value
Unregistered(meta) ==
    {i \in DOMAIN meta.dependencies :
        /\ meta.dependencies[i] \notin Registered
        /\ meta.dependencies[i] \notin DOMAIN index}

\* C12: when the build ends in the factory of a descriptor that lists a type
\* with no descriptor and no injected value (in a registry without a cycle),
\* the panic is the not-registered error and names that descriptor, the
\* dependent.
C12_UnregisteredNamesDependent ==
    (/\ pc = "unwinding"
     /\ panic.kind \notin {"InconsistentBinding", "TypeMismatch"}
     /\ Unregistered(creation_order[cursor]) # {}
     /\ ~Cyclic) =>
        panic = [kind |-> "LookupMiss", name |-> creation_order[cursor].name]

(***************************************************************************)
(* Errors of the build and of the lookups.                                 *)
(***************************************************************************)
\* C13: when a factory is about to run and its lookups succeed, a value of
\* another runtime type than the declared one makes build_and_store panic
\* with the type-mismatch error; and the step that ends in that panic aborts
\* the build and leaves the store, the index and the multi-bindings index as
\* they were before the factory was invoked.
C13_TypeMismatchStoresNothing ==
    [][/\ (Building /\ Create(injector, creation_order[cursor]).panic = NoPanic) =>
             Injector_build_and_store(injector, creation_order[cursor], WrongType).panic
                 = [kind |-> "TypeMismatch", name |-> creation_order[cursor].name]
       /\ (pc = "build" /\ panic'.kind = "TypeMismatch") =>
             /\ pc' = "unwinding"
             /\ calls' # calls
             /\ UNCHANGED <<items, index, multi_bindings_index>>]_vars

\* a build has just been aborted by a value of the wrong type, after two
\* values were stored and indexed
C13_Witness ==
    /\ pc = "unwinding"
    /\ panic.kind = "TypeMismatch"
    /\ dropped = <<>>
    /\ Len(items) >= 2
    /\ DOMAIN index # {}

\* the lookup that ended in a panic handed out nothing
HandsOutNothing(got) == got.panic # NoPanic => (got.at = <<>> /\ got.refs = {})

\* C14: on an injector that is being built or is sealed, get and
\* get_trait_object succeed exactly for the type ids that have an entry in
\* the index; a call for another type id panics with the lookup-miss error
\* of that type id, hands out no reference and leaves the store and both
\* indexes as they were.
C14_GetSucceedsIffIndexed ==
    [][/\ pc \in {"build", "sealed"} =>
             \A id \in TypeIds :
                 /\ Injector_get(injector, id).panic = NoPanic <=> id \in DOMAIN index
                 /\ Injector_get_trait_object(injector, id).panic = NoPanic
                        <=> id \in DOMAIN index
                 /\ HandsOutNothing(Injector_get(injector, id))
                 /\ HandsOutNothing(Injector_get_trait_object(injector, id))
       /\ (lookup' # lookup /\ lookup'.call \in {"get", "get_trait_object"}) =>
             /\ lookup'.panic = NoPanic <=> lookup'.id \in DOMAIN index
             /\ lookup'.panic # NoPanic =>
                   /\ lookup'.panic = [kind |-> "LookupMiss", name |-> lookup'.id]
                   /\ lookup'.at = <<>> /\ lookup'.refs = {}
                   /\ UNCHANGED <<items, index, multi_bindings_index>>]_vars

\* a get on a sealed injector that holds other types has just failed
C14_Witness ==
    /\ pc = "sealed"
    /\ lookup.call = "get"
    /\ lookup.panic.kind = "LookupMiss"
    /\ DOMAIN index # {}

\* the type id has a descriptor that is a multi binding
RegisteredMulti(id) == \E i \in MetasOf(id) : AllMetas[i].is_multi_binding

\* what C15 asks of the outcome of get_all_trait_objects for the type id
FailsOrYields(id, got) ==
    /\ ~RegisteredMulti(id) =>
          got.panic = [kind |-> "LookupMiss", name |-> id] /\ got.at = <<>>
    /\ got.panic = NoPanic => Len(got.at) >= 1

\* C15: on an injector that is being built or is sealed,
\* get_all_trait_objects for a type id that no multi binding was registered
\* for panics with the lookup-miss error and yields nothing, and whenever it
\* succeeds it yields at least one trait object.
C15_GetAllFailsOrYields ==
    /\ pc \in {"build", "sealed"} =>
          \A id \in TypeIds :
              FailsOrYields(id, Injector_get_all_trait_objects(injector, id))
    /\ lookup.call = "get_all_trait_objects" => FailsOrYields(lookup.id, lookup)

\* get_all_trait_objects has just failed for a trait that has a single-valued
\* binding in the sealed injector
C15_Witness ==
    /\ pc = "sealed"
    /\ lookup.call = "get_all_trait_objects"
    /\ lookup.panic.kind = "LookupMiss"
    /\ lookup.id \in DOMAIN index

\* C16: every call of get, get_trait_object or get_all_trait_objects on the
\* sealed injector, whether it succeeds or panics, leaves the store, the
\* index and the multi-bindings index as they were and invokes no factory;
\* so the sealed injector stays as the build left it.
C16_LookupsArePureReads ==
    [][/\ (pc = "sealed" /\ pc' = "sealed") =>
             UNCHANGED <<items, index, multi_bindings_index, calls, pushed>>
       /\ pc = "sealed" =>
             /\ items = pushed
             /\ Len(calls) = Len(creation_order)]_vars

\* a lookup on the sealed injector has just yielded two trait objects
C16_Witness ==
    /\ pc = "sealed"
    /\ lookup.call = "get_all_trait_objects"
    /\ lookup.panic = NoPanic
    /\ Len(lookup.at) >= 2

(***************************************************************************)
(* The store, by address.                                                  *)
(***************************************************************************)
\* C17: a reference that UnsafeStore::get handed out for a position keeps
\* pointing to live memory that holds the value it pointed to when it was
\* taken, which is the item at that position, and a new get for the position
\* yields the same pointer, after any pushes, those that move the buffer of
\* the Vec included.
C17_PointersAreStable ==
    \A r \in held :
        /\ r.value # None
        /\ Deref(memory, r.ptr) = r.value
        /\ UnsafeStore_get(items, r.slot) = r.value
        /\ UnsafeStore_get_ref(memory, r.slot) = Some(r.ptr)

\* a reference to the first item is held, two items have been pushed since
\* and the buffer of the Vec has moved: the address it had when the reference
\* was taken is free or holds a Box
C17_Witness ==
    /\ pc = "store"
    /\ \E r \in held :
          /\ r.slot = 0
          /\ Len(items) >= 3
          /\ r.buffer # memory.ptr
          /\ \E q \in held : q.slot = 2 /\ q.ptr.alloc = r.buffer

(***************************************************************************)
(* Sharing of the instances.                                               *)
(***************************************************************************)
\* the items the factory of descriptor j made
ItemsOf(j) == {items[k] : k \in {k \in DOMAIN items : items[k].create = AllMetas[j].create}}

Injected(item) == item.create.registry = "inject_value"

\* the injector exists: it is being filled or it is sealed
Alive == pc \in {"new", "sort", "build", "sealed"}

\* C20: a value given to inject_value lies in the store below every value a
\* factory made; while the injector is filled and once it is sealed, get for
\* its type (which has no descriptor) returns it; and every item built by a
\* descriptor that lists its type borrows it.
C20_InjectedValueResolvable ==
    \A k \in DOMAIN pushed :
        (Injected(pushed[k]) /\ pushed[k].type_id \notin Registered) =>
            /\ \A j \in DOMAIN pushed : ~Injected(pushed[j]) => k < j
            /\ Alive =>
                  /\ Injector_get(injector, pushed[k].type_id).panic = NoPanic
                  /\ Injector_get(injector, pushed[k].type_id).refs = {k - 1}
                  /\ UnsafeStore_get(items, k - 1) = Some(pushed[k])
                  /\ \A j \in Dependents(pushed[k].type_id) :
                        \A item \in ItemsOf(j) : k - 1 \in item.refs

\* a sealed injector holds an injected value and two built items that borrow
\* it
C20_Witness ==
    /\ pc = "sealed"
    /\ \E k \in DOMAIN items :
          /\ Injected(items[k])
          /\ Cardinality({j \in DOMAIN items : k - 1 \in items[j].refs}) >= 2

(***************************************************************************)
(* C21: once the injector is sealed, whatever the interleaving of the      *)
(* statements of the readers' get, get_trait_object and                    *)
(* get_all_trait_objects calls, no statement changes an item or an index   *)
(* entry, and every call that has returned has the result the same call    *)
(* gives when it runs alone on the sealed injector.                        *)
(***************************************************************************)
C21_ReadersDoNotInterfere ==
    [][(pc = "sealed" /\ pc' = "sealed") =>
          /\ injectorVars' = injectorVars
          /\ \A r \in Readers :
                readers'[r].stage = "returned" =>
                    readers'[r].got = Lookup(injector', readers'[r].id, readers'[r].call)]_vars

\* one reader has returned from get_all_trait_objects with two providers
\* while the other is between the two items of its own call
C21_Witness ==
    /\ pc = "sealed"
    /\ readers["reader1"].stage = "returned"
    /\ Len(readers["reader1"].got.at) > 1
    /\ readers["reader2"].stage = "items"
    /\ readers["reader2"].got.at # <<>>

(***************************************************************************)
(* C22: UnsafeStore::push returns the slot of the value it pushed: the     *)
(* i-th push returns i - 1, the number of values pushed before it, and     *)
(* UnsafeStore::get of the returned slot gives that value, then and after  *)
(* every later push.                                                       *)
(***************************************************************************)
C22_PushReturnsSlot ==
    pc = "store" =>
        /\ Len(slots) = Len(items)
        /\ \A i \in DOMAIN slots :
              /\ slots[i] = i - 1
              /\ UnsafeStore_get(items, slots[i]) = Some(BoxedValue(i - 1))
              /\ UnsafeStore_get_ref(memory, slots[i]) # None
              /\ Deref(memory, UnsafeStore_get_ref(memory, slots[i])[1]) = Some(BoxedValue(i - 1))

\* several values were pushed and the slot the last push returned has been
\* used for a get
C22_Witness ==
    /\ pc = "store"
    /\ Len(slots) > 1
    /\ \E h \in held : h.slot = slots[Len(slots)]

\* the prebuild call that is running or was made last
LastPrebuild == prebuilds[Len(prebuilds)]

\* the types a prebuild call that starts at `start` has to build
ReachableTypes(start) == ReachableFrom({start}, Cardinality(LegacyTypes))

\* the item of type t that get returns was built from items that were in the
\* injector before it, one of the type of each of its dependencies
BuiltAfterDependencies(t) ==
    LET item == items[mapping[t] + 1]
    IN  /\ \A p \in item.refs : p < mapping[t]
        /\ \A d \in DependenciesOf(t) : \E p \in item.refs : items[p + 1].type_id = d
        /\ \A p \in item.refs : items[p + 1].type_id \in DependenciesOf(t)

(***************************************************************************)
(* C23: after a prebuild::<I>() call has returned, get succeeds for I and  *)
(* for every type reachable from I through dependency lists, and the value *)
(* of each was constructed after the values of its own dependencies.       *)
(***************************************************************************)
C23_PrebuiltResolvable ==
    (pc = "legacy" /\ prebuilds # <<>>) =>
        \A k \in DOMAIN prebuilds :
            \A t \in ReachableTypes(prebuilds[k].start) :
                /\ Runtime_Injector_get(legacy_injector, t).panic = NoPanic
                /\ BuiltAfterDependencies(t)

\* prebuild::<Everything>() has returned with a value of every type and the
\* program has fetched one with get
C23_Witness ==
    /\ pc = "legacy"
    /\ Len(prebuilds) = 1
    /\ LastPrebuild.start = "Everything"
    /\ ReachableTypes("Everything") = LegacyTypes
    /\ lookup.id = "Empty"
    /\ lookup.panic = NoPanic

\* a cycle of dependencies can be reached from `start`
CycleReachable(start) == ReachableTypes(start) \cap OnCycle # {}

\* the running prebuild call has not invoked a factory
NoFactoryYet == Len(calls) = LastPrebuild.calls_before

(***************************************************************************)
(* C29, as claimed: a prebuild::<I>() call ends with the "Loop detected"   *)
(* assertion if and only if a cycle can be reached from I, and no factory  *)
(* has been invoked when the assertion fires.                              *)
(***************************************************************************)
C29_LoopDetectedIffCycle ==
    (prebuilds # <<>> /\ pc \in {"legacy", "aborted"}) =>
        /\ panic.kind = "LoopDetected" <=> CycleReachable(LastPrebuild.start)
        /\ panic.kind = "LoopDetected" => NoFactoryYet

(***************************************************************************)
(* C29, amended: the "Loop detected" assertion fires only when a cycle can *)
(* be reached from I (never on an acyclic graph), and no factory of the    *)
(* call has been invoked then; when a cycle can be reached from I the call *)
(* never gets to invoke a factory or to return: it ends in the traversal,  *)
(* with "Loop detected" or, when a type without a descriptor is visited    *)
(* before the cycle closes, with the unwrap of the missing descriptor.     *)
(***************************************************************************)
C29_LoopDetectedOnlyOnCycle ==
    prebuilds # <<>> =>
        /\ panic.kind = "LoopDetected" =>
              /\ CycleReachable(LastPrebuild.start)
              /\ NoFactoryYet
        /\ CycleReachable(LastPrebuild.start) =>
              /\ pc \in {"visit", "aborted"}
              /\ NoFactoryYet
              /\ pc = "aborted" => panic.kind \in {"LoopDetected", "UnwrapNone"}

\* a second prebuild call on an injector that holds values has ended with
\* "Loop detected" for a cycle its start is not on
C29_Witness ==
    /\ pc = "aborted"
    /\ panic.kind = "LoopDetected"
    /\ Len(prebuilds) > 1
    /\ items # <<>>
    /\ panic.name # LastPrebuild.start

(***************************************************************************)
(* C24: with a dependency cycle among the registered descriptors (and      *)
(* consistent bindings) the build ends during the traversal: the sort      *)
(* never returns a construction order, no factory is ever invoked and the  *)
(* build stores nothing in the arena or the indexes.                       *)
(***************************************************************************)
C24_CycleAbortsTraversal ==
    (Cyclic /\ ~MixedBindings) =>
        /\ pc \notin {"build", "sealed"}
        /\ calls = <<>>
        /\ \A i \in DOMAIN pushed : pushed[i].create.registry = "inject_value"
        /\ DOMAIN multi_bindings_index = {}

\* the place of x in a sequence without repeats, 0 when it is not there
Place(seq, x) == IF \E i \in DOMAIN seq : seq[i] = x
                 THEN CHOOSE i \in DOMAIN seq : seq[i] = x ELSE 0

\* the types a descriptor of t needs, directly or not
Needs(t) == ReachableFrom(DependenciesOf(t), Cardinality(TypeIds))

\* the types in creation_order, in order
Finalized == [i \in DOMAIN creation_order |-> creation_order[i].this]

\* the types whose factories have been invoked, in order
Constructed ==
    [i \in DOMAIN calls |->
        AllMetas[CHOOSE k \in DOMAIN AllMetas : AllMetas[k].create = calls[i]].this]

\* a visited descriptor p lists d1 and then d2 and nothing else, neither had
\* been visited when p was, and neither needs the other
Siblings(p, d1, d2) ==
    /\ d1 # d2
    /\ Cardinality(MetasOf(p)) = 1
    /\ \A i \in MetasOf(p) : AllMetas[i].dependencies = <<d1, d2>>
    /\ {d1, d2} \subseteq Registered
    /\ Cardinality(MetasOf(d1)) = 1
    /\ Cardinality(MetasOf(d2)) = 1
    /\ Place(visited, p) > 0
    /\ \A d \in {d1, d2} : Place(visited, d) = 0 \/ Place(visited, d) > Place(visited, p)
    /\ d1 \notin Needs(d2)
    /\ d2 \notin Needs(d1)

\* x comes before y in seq, if y is in it
Before(seq, x, y) == Place(seq, y) > 0 => (Place(seq, x) > 0 /\ Place(seq, x) < Place(seq, y))

FlagsAgree(trait) ==
    \A i, j \in DOMAIN BindingsOf(trait) :
        BindingsOf(trait)[i].is_multi_binding = BindingsOf(trait)[j].is_multi_binding

\* build_the_world has checked the groups of bindings
Validated == pc # "new"

\* the check of the groups has ended the build
Rejected == panic.kind = "InconsistentBinding"

(***************************************************************************)
(* C26, as claimed: the validation of the bindings rejects a group of more *)
(* than one entry only when its flags disagree; a group whose entries all  *)
(* carry the same flag, all multi or all single, passes.                   *)
(***************************************************************************)
C26_RejectedOnlyWhenFlagsDisagree ==
    Validated => (Rejected <=> \E trait \in Traits : ~FlagsAgree(trait))

(***************************************************************************)
(* C26, amended: the validation rejects a group of more than one entry if  *)
(* and only if one of its entries is single-valued: a group of several     *)
(* multi-valued entries passes, a group of several single-valued entries   *)
(* is rejected like a mixed one, with the name of the capability.          *)
(***************************************************************************)
C26_RejectedIffSeveralWithSingle ==
    Validated =>
        /\ Rejected <=>
              \E trait \in Traits :
                  /\ Len(BindingsOf(trait)) > 1
                  /\ \E i \in DOMAIN BindingsOf(trait) : ~BindingsOf(trait)[i].is_multi_binding
        /\ Rejected => panic.name \in Traits /\ Len(BindingsOf(panic.name)) > 1

\* a group of several multi bindings has passed the validation and the sort
\* has begun
C26_Witness ==
    /\ pc = "sort"
    /\ Len(BindingsOf("T")) > 1
    /\ \A i \in DOMAIN BindingsOf("T") : BindingsOf("T")[i].is_multi_binding

\* how many times descriptor x is held by the sort: in its output, in the
\* graph still to visit and in the AfterChildren visits that are queued
HeldBySort(x) ==
    Count(creation_order, x)
        + (IF x.this \in DOMAIN graph THEN Count(graph[x.this], x) ELSE 0)
        + Cardinality({ik \in (DOMAIN dfs_queue) \X (DOMAIN AllMetas) :
                          /\ ik[2] \in DOMAIN dfs_queue[ik[1]].metas
                          /\ dfs_queue[ik[1]].metas[ik[2]] = x})

(***************************************************************************)
(* C27: topological_sort never fails and neither drops, repeats nor        *)
(* invents a descriptor: while it runs every input descriptor is held      *)
(* exactly once (output, graph or queue) and nothing else is, a dependency *)
(* without a descriptor included, and the order it returns lists every     *)
(* input descriptor exactly once.                                          *)
(***************************************************************************)
C27_SortKeepsEveryDescriptor ==
    /\ pc = "sort" =>
          /\ panic = NoPanic
          /\ \A i \in DOMAIN AllMetas : HeldBySort(AllMetas[i]) = 1
          /\ Range(creation_order) \subseteq Range(AllMetas)
    /\ pc \in {"build", "sealed"} =>
          /\ Len(creation_order) = Len(AllMetas)
          /\ \A i \in DOMAIN AllMetas : Count(creation_order, AllMetas[i]) = 1

\* the sort has returned an order for a registry in which a descriptor
\* depends on a type that has none
C27_Witness ==
    /\ pc = "build"
    /\ cursor = 1
    /\ Len(creation_order) > 1
    /\ ~AllDependenciesRegistered

\* the entries of INJECTION_REGISTRY for type t, when there are several
Duplicates(t) ==
    IF Cardinality({i \in DOMAIN INJECTION_REGISTRY : INJECTION_REGISTRY[i].this = t}) > 1
    THEN {i \in DOMAIN INJECTION_REGISTRY : INJECTION_REGISTRY[i].this = t}
    ELSE {}

\* the positions of the items the factory `create` made
PositionsOf(create) == {k \in 0..(Len(items) - 1) : items[k + 1].create = create}

(***************************************************************************)
(* C28: two descriptors registered for one single-valued type do not make  *)
(* the build fail: when the injector is sealed both factories have run     *)
(* once, both values are in the arena, and the index entry of the type is  *)
(* the slot of the value of the descriptor registered later; the earlier   *)
(* value has no index entry.  A registry without another fault never       *)
(* panics but for a factory that returns a value of the wrong type.        *)
(***************************************************************************)
C28_DuplicateOverwritesIndex ==
    \A t \in Types :
        Duplicates(t) # {} =>
            /\ (AllDependenciesRegistered /\ ~Cyclic) =>
                  panic.kind \in {"none", "TypeMismatch"}
            /\ pc = "sealed" =>
                  LET later == CHOOSE i \in Duplicates(t) : \A j \in Duplicates(t) : j <= i
                  IN  /\ \A i \in Duplicates(t) :
                            /\ Count(calls, INJECTION_REGISTRY[i].create) = 1
                            /\ Cardinality(PositionsOf(INJECTION_REGISTRY[i].create)) = 1
                      /\ t \in DOMAIN index
                      /\ PositionsOf(INJECTION_REGISTRY[later].create) = {index[t]}
                      /\ \A i \in Duplicates(t) \ {later} :
                            \A id \in DOMAIN index :
                                index[id] \notin PositionsOf(INJECTION_REGISTRY[i].create)

\* the injector is sealed with two values of type A, and a value that was
\* built after them borrows from the later one
C28_Witness ==
    /\ pc = "sealed"
    /\ Duplicates("A") # {}
    /\ \E k \in DOMAIN items : items[k].type_id = "C" /\ items[k].refs = {index["A"]}

\* build_the_world has returned the injector or has panicked
BuildOver == pc \in {"sealed", "unwinding"}

(***************************************************************************)
(* C30: the build of every registry terminates, cyclic ones and ones with  *)
(* unregistered dependencies included: build_the_world eventually returns  *)
(* a sealed injector or panics, and by then topological_sort has taken no  *)
(* type out of the graph twice (visited records every take in order).      *)
(***************************************************************************)
C30_BuildTerminates ==
    <>(BuildOver /\ \A i, j \in DOMAIN visited : visited[i] = visited[j] => i = j)

\* the build of a cyclic registry with an unregistered dependency is over
C30_Witness ==
    /\ BuildOver
    /\ Cyclic
    /\ ~AllDependenciesRegistered
    /\ Len(visited) > 1

(***************************************************************************)
(* A factory that asks for all the providers of a capability.              *)
(***************************************************************************)
\* the factory of the descriptor fetches trait with get_all_trait_objects
AsksForAll(meta, trait) ==
    \E i \in DOMAIN meta.dependencies :
        /\ meta.dependencies[i] = trait
        /\ meta.create.lookups[i] = "get_all_trait_objects"

\* get_all_trait_objects on the injector as it is now yields one trait object
\* per registered binding of trait, the i-th made by the i-th binding
YieldsEveryProvider(trait) ==
    LET got == Injector_get_all_trait_objects(injector, trait)
        bindings == BindingsOf(trait)
    IN  /\ got.panic = NoPanic
        /\ Len(got.at) = Len(bindings)
        /\ \A i \in DOMAIN bindings :
              /\ UnsafeStore_get(items, got.at[i]) # None
              /\ UnsafeStore_get(items, got.at[i])[1].create = bindings[i].create

\* C31: when the factory of a descriptor that fetches all the providers of a
\* capability with multi bindings is about to run, every binding of the
\* capability has been built, and get_all_trait_objects yields all of them.
C31_ProvidersBuiltBeforeDependent ==
    \A trait \in Traits :
        (/\ Building
         /\ AsksForAll(creation_order[cursor], trait)
         /\ AllMultiBindings(trait)) => YieldsEveryProvider(trait)

\* the same, in the registries without a dependency cycle
C31_ProvidersBuiltUnlessCyclic ==
    \A trait \in Traits :
        (/\ Building
         /\ AsksForAll(creation_order[cursor], trait)
         /\ AllMultiBindings(trait)
         /\ ~Cyclic) => YieldsEveryProvider(trait)

(***************************************************************************)
(* The two indexes.                                                        *)
(***************************************************************************)
\* the type id has descriptors, and all of them are multi bindings
OnlyMulti(id) ==
    /\ MetasOf(id) # {}
    /\ \A i \in MetasOf(id) : AllMetas[i].is_multi_binding

\* the type id has descriptors, and none of them is a multi binding
OnlySingle(id) ==
    /\ MetasOf(id) # {}
    /\ \A i \in MetasOf(id) : ~AllMetas[i].is_multi_binding

LookupMisses(id, call) ==
    Lookup(injector, id, call).panic = [kind |-> "LookupMiss", name |-> id]

\* C32: at every moment of the build and after it, a type id whose
\* descriptors are all multi bindings has no entry in index, so get and
\* get_trait_object for it panic with the lookup miss, and a type id whose
\* descriptors are all single-valued has no entry in multi_bindings_index,
\* so get_all_trait_objects for it panics with the lookup miss.  Stated from
\* the indexes: an entry or a lookup that does not miss rules the case out.
C32_IndexesKeptApart ==
    \A id \in TypeIds :
        /\ (\/ id \in DOMAIN index
            \/ ~LookupMisses(id, "get")
            \/ ~LookupMisses(id, "get_trait_object")) => ~OnlyMulti(id)
        /\ (\/ id \in DOMAIN multi_bindings_index
            \/ ~LookupMisses(id, "get_all_trait_objects")) => ~OnlySingle(id)

\* on a sealed injector that holds the providers of T under multi bindings
\* and a single-valued type, a client has asked for T with get_trait_object
\* and the call has missed
C32_Witness ==
    /\ pc = "sealed"
    /\ OnlyMulti("T")
    /\ "T" \in DOMAIN multi_bindings_index
    /\ \E id \in Types : OnlySingle(id) /\ id \in DOMAIN index
    /\ lookup.call = "get_trait_object"
    /\ lookup.id = "T"
    /\ lookup.panic = [kind |-> "LookupMiss", name |-> "T"]

(***************************************************************************)
(* One build followed to its end as a function of the registries: the      *)
(* outer loop of topological_sort takes the key that `graph.keys().next()`  *)
(* gives in one fixed iteration order of the map, and every factory        *)
(* returns a value of its declared type.                                   *)
(***************************************************************************)
\* graph.keys().next() in the fixed order
FixedStart(g) == CHOOSE start \in DOMAIN g : TRUE

\* topological_sort from the graph g with dfs_queue `queue`, creation_order
\* `order` so far
RECURSIVE FixedSort(_, _, _)
FixedSort(g, queue, order) ==
    IF queue = <<>>
    THEN IF GraphExhausted(g) THEN order
         ELSE FixedSort(g, <<BeforeChildren(FixedStart(g))>>, order)
    ELSE LET to_visit == queue[Len(queue)]
             rest == SubSeq(queue, 1, Len(queue) - 1)
         IN  IF to_visit.visit = "BeforeChildren"
             THEN IF to_visit.this_type \notin DOMAIN g
                  THEN FixedSort(g, rest, order)
                  ELSE FixedSort(GraphRemove(g, to_visit.this_type),
                                 PushVisits(rest, g[to_visit.this_type]), order)
             ELSE FixedSort(g, rest, order \o to_visit.metas)

\* `for meta in sorted { build_and_store(&meta) }` from entry k on
RECURSIVE FixedBuild(_, _, _)
FixedBuild(inj, sorted, k) ==
    IF k > Len(sorted) THEN [panic |-> NoPanic, injector |-> inj]
    ELSE LET after == Injector_build_and_store(inj, sorted[k], sorted[k].this)
         IN  IF after.panic # NoPanic THEN after
             ELSE FixedBuild(after.injector, sorted, k + 1)

\* the injector main hands to build_the_world: the seeded values, stored
RECURSIVE Seeded(_, _)
Seeded(inj, values) ==
    IF values = <<>> THEN inj
    ELSE Seeded(Injector_store(inj, Head(values)), Tail(values))

\* build_the_world on the registries with the seeded values: [panic, injector]
FixedBuildTheWorld(values) ==
    LET groups == all_trait_bindings(BINDING_REGISTRY)
        keys == CHOOSE ks \in Perms(DOMAIN groups) : TRUE
    IN  IF \E i \in DOMAIN keys : MixedGroup(groups[keys[i]])
        THEN [panic |-> [kind |-> "InconsistentBinding", name |-> "none"],
              injector |-> Seeded(Injector_builder, values)]
        ELSE FixedBuild(Seeded(Injector_builder, values),
                        FixedSort(MetasByType(INJECTION_REGISTRY
                                                \o metadata_for_bindings(groups, keys)),
                                  <<>>, <<>>),
                        1)

\* what a client can tell of a built injector without looking at slot
\* numbers: the identities that resolve and the instance each resolves to
\* (an instance is named by the factory call that made it), the providers of
\* each capability in order, and which instance borrows from which
Outcome(inj) ==
    LET made(position) == UnsafeStore_get(inj.items, position)[1].create
    IN  [single |-> [id \in DOMAIN inj.index |-> made(inj.index[id])],
         multi |-> [id \in DOMAIN inj.multi_bindings_index |->
                       [i \in DOMAIN inj.multi_bindings_index[id] |->
                           made(inj.multi_bindings_index[id][i])]],
         borrows |-> UNION {{<<inj.items[k].create, made(r)>> : r \in inj.items[k].refs} :
                               k \in DOMAIN inj.items}]

\* the values main seeded, as the store has kept them
SeededValues == SelectSeq(pushed, LAMBDA item : item.create.registry = "inject_value")

\* build_the_world has just returned or has just panicked
JustOver ==
    \/ pc = "sealed" /\ lookup = NoLookup
    \/ pc = "unwinding" /\ dropped = <<>>

FirstBatch == prebuilds[2].calls_before

\* the places of the items of type t among the places S
PlacesOf(t, S) == {k \in S : items[k].type_id = t}

\* C34: when the second prebuild call on an injector has returned, every type
\* reachable from its start has exactly one item built by this call, types
\* that the first call built included, and mapping points to that item; the
\* items of the first call are still in items, one per type reachable from
\* the first start, each borrowing from items of the first call only, of the
\* types of its dependencies.
C34_SecondPrebuildBuildsAgain ==
    (pc = "legacy" /\ Len(prebuilds) = 2) =>
        LET earlier == 1..FirstBatch
            later == (FirstBatch + 1)..Len(items)
        IN  /\ FirstBatch <= Len(items)
            /\ \A t \in LegacyTypes :
                  /\ Cardinality(PlacesOf(t, later)) =
                        (IF t \in ReachableTypes(prebuilds[2].start) THEN 1 ELSE 0)
                  /\ Cardinality(PlacesOf(t, earlier)) =
                        (IF t \in ReachableTypes(prebuilds[1].start) THEN 1 ELSE 0)
            /\ \A t \in ReachableTypes(prebuilds[2].start) :
                  /\ t \in DOMAIN mapping
                  /\ mapping[t] + 1 \in PlacesOf(t, later)
            /\ \A k \in earlier :
                  /\ \A p \in items[k].refs :
                        /\ p + 1 \in earlier
                        /\ p + 1 < k
                        /\ items[p + 1].type_id \in DependenciesOf(items[k].type_id)
                  /\ \A d \in DependenciesOf(items[k].type_id) :
                        \E p \in items[k].refs : items[p + 1].type_id = d

\* prebuild::<HoldsAnEmpty>() and then prebuild::<Everything>() have
\* returned: a type has two values, the earlier one still borrowed by a
\* dependent of the first call, and mapping points to the later one
C34_Witness ==
    /\ pc = "legacy"
    /\ Len(prebuilds) = 2
    /\ \E t \in ReachableTypes(prebuilds[1].start) \cap ReachableTypes(prebuilds[2].start) :
          /\ mapping[t] >= FirstBatch
          /\ \E k \in 1..FirstBatch, p \in 1..FirstBatch :
                /\ items[p].type_id = t
                /\ p - 1 \in items[k].refs

====
